---------------------------- MODULE Spec2Model ----------------------------
(***************************************************************************)
(* Model of the two launchers of the repository:                           *)
(*   src/samsoftbuild0a.py  (class NoobClientLauncher, "sam" below)        *)
(*   src/noobv0.py          (class NoobLauncher, "noob" below)             *)
(*                                                                         *)
(* Sections:                                                               *)
(*   1. rule evaluators            (should_include, apply_rules)           *)
(*   2. files, hashes, the network                                         *)
(*   3. _download_with_retry       (sam)                                   *)
(*   4. download_version_files pool, _download_library,                    *)
(*      build_launch_command       (sam)                                   *)
(*   5. install_libraries          (noob)                                  *)
(*   6. download_version_files     (noob, recursive resolve)               *)
(* Each section has its own specification over the shared variables; the   *)
(* variables of the other sections stay at their idle values.              *)
(***************************************************************************)
EXTENDS Integers, Sequences, FiniteSets, TLC

VARIABLES
    platform,       \* platform.system() of the host
    \* ---- 1. rule evaluation
    evRules,        \* the rule list handed to the evaluators
    evHasRules,     \* whether the entry has a "rules" key at all
    evVerdict,      \* per call site: "included" / "excluded", "unset" before the call
    \* ---- 2. files and the network
    disk,           \* path -> content of the file there (NoFile when there is none)
    \* ---- 3. _download_with_retry, one call per thread
    retry,          \* thread -> the locals of its _download_with_retry call
    \* ---- 4. samsoftbuild0a: download_version_files, build_launch_command
    samManifest,    \* data["libraries"] of the selected version
    samMain,        \* the launch thread: [pc, wait, outcome, run, launches]
    samTask,        \* pool worker -> [pc, result, reqs, prev] of its _download_library
    samDone,        \* the workers in the order their futures completed
    samNatives,     \* names of the libraries whose natives lie in natives_dir
    samClasspath,   \* library indices on the classpath of the built command
    \* ---- 5. noobv0: install_libraries
    noobManifest,   \* data['libraries'] handed to install_libraries
    noobLib,        \* the call: [pc, idx, lib_paths, fetched, calls, launches]
    noobNatives,    \* names of the libraries whose natives lie in natives_dir
    \* ---- 6. noobv0: download_version_files
    versions,       \* self.versions: id -> [loader, mc_version, url]
    downloaded_versions, \* self.downloaded_versions
    resFiles,       \* id -> [json, jar]: the files under VERSIONS_DIR
    resDocs,        \* id -> the document in VERSIONS_DIR/<id>.json
    resStack,       \* launch thread -> its nested download_version_files calls,
                    \* innermost last
    resTop,         \* launch thread -> its top-level call:
                    \* [version, ret, errs, calls, limit]
    \* ---- 7. samsoftbuild0a: the version JSON download_version_files writes
    samVersions,    \* self.versions: id -> [loader, inheritsFrom]
    samDocs,        \* id -> the document download_version_files wrote to
                    \* <version_dir>/<id>.json
    samJson,        \* the last call's JSON step: [version, outcome]
    \* ---- 8. extraction of a native archive
    exArchive,      \* the entry names of the archive, in archive order
    exOut,          \* per launcher: [done, wrote, archive_kept] of its extraction
    \* ---- 9. _prepare_and_launch: the Java runtime, then the downloads
    lnSam,          \* samsoftbuild0a: [pc, java, provision, fetched, assets, spawned]
    lnNoob,         \* noobv0: [pc, entry, installed, depth] of the Java step
    \* ---- 10. the launch command
    cmdDoc,         \* the argument part of the version JSON and the entry's loader
    cmdOut,         \* per launcher: [status, argv] of the command it built
    \* ---- 11. the on-disk paths of libraries
    coLibs,         \* the manifest's library entries, in order
    coOut           \* per launcher: what it stored and what it put on the classpath

ruleVars == <<evRules, evHasRules, evVerdict>>

fileVars == <<disk, retry>>

samVars == <<samManifest, samMain, samTask, samDone, samNatives, samClasspath>>

noobVars == <<noobManifest, noobLib, noobNatives>>

resVars == <<versions, downloaded_versions, resFiles, resDocs, resStack, resTop>>

mergeVars == <<samVersions, samDocs, samJson>>

zipVars == <<exArchive, exOut>>

launchVars == <<lnSam, lnNoob>>

cmdVars == <<cmdDoc, cmdOut>>

coVars == <<coLibs, coOut>>

\* the sections after the extraction
lateVars == <<launchVars, cmdVars, coVars>>

\* what the sections after the extraction leave alone
earlyVars ==
    <<platform, ruleVars, fileVars, samVars, noobVars, resVars, mergeVars, zipVars>>

launchFrame == <<earlyVars, cmdVars, coVars>>

cmdFrame == <<earlyVars, launchVars, coVars>>

coFrame == <<earlyVars, launchVars, cmdVars>>

\* what the actions of one launcher leave alone
samFrame == <<platform, ruleVars, noobVars, resVars, mergeVars, zipVars, lateVars>>

noobFrame == <<platform, ruleVars, samVars, resVars, mergeVars, zipVars, lateVars>>

resFrame == <<platform, ruleVars, fileVars, samVars, noobVars, mergeVars, zipVars, lateVars>>

\* what the rule evaluators leave alone
ruleFrame == <<fileVars, samVars, noobVars, resVars, mergeVars, zipVars, lateVars>>

vars == <<platform, ruleVars, fileVars, samVars, noobVars, resVars, mergeVars, zipVars, lateVars>>

-----------------------------------------------------------------------------
(* Generic helpers *)

SeqsUpTo(S, n) == UNION {[1..k -> S] : k \in 0..n}

RECURSIVE Pow2(_)
Pow2(k) == IF k = 0 THEN 1 ELSE 2 * Pow2(k - 1)

-----------------------------------------------------------------------------
(* 1. Rule evaluators *)

\* longest rule list handed to the evaluators
MaxRules == 2

\* platform.system() values of the supported hosts
Platforms == {"Windows", "Linux", "Darwin"}

\* str.lower() on the platform names
Lower(p) ==
    CASE p = "Windows" -> "windows"
      [] p = "Linux"   -> "linux"
      [] p = "Darwin"  -> "darwin"

\* OS names a manifest rule may carry in rule["os"]["name"]
OSNames == {"windows", "linux", "osx"}

\* a rule without an "os" key
NoOs == "none"

Actions == {"allow", "disallow"}

\* a manifest rule: os is the rule's os.name (NoOs when the rule has no "os"),
\* features tells whether the rule has a "features" key
Rule == [os : OSNames \cup {NoOs}, features : BOOLEAN, action : Actions]

\* samsoftbuild0a: current_os = platform.system().lower(), "darwin" -> "osx"
CurrentOsSam(p) == IF Lower(p) = "darwin" THEN "osx" ELSE Lower(p)

\* noobv0: os_name = platform.system().lower()
CurrentOsNoob(p) == Lower(p)

\* samsoftbuild0a.matches_conditions
matches_conditions(rule, os_name) ==
    IF rule.os # NoOs /\ rule.os # os_name THEN FALSE
    ELSE IF rule.features THEN FALSE
    ELSE TRUE

\* samsoftbuild0a.should_include: the first rule that matches decides
RECURSIVE should_include_from(_, _, _)
should_include_from(rs, os_name, i) ==
    IF i > Len(rs) THEN FALSE
    ELSE IF matches_conditions(rs[i], os_name) THEN rs[i].action = "allow"
    ELSE should_include_from(rs, os_name, i + 1)

should_include(rs, os_name) ==
    IF rs = <<>> THEN TRUE ELSE should_include_from(rs, os_name, 1)

\* samsoftbuild0a.is_library_allowed
is_library_allowed(lib, current_os) == should_include(lib.rules, current_os)

\* noobv0.apply_rules: any os-matching disallow rule excludes, else included
RECURSIVE apply_rules_from(_, _, _)
apply_rules_from(rs, os_name, i) ==
    IF i > Len(rs) THEN TRUE
    ELSE LET os_match == ~(rs[i].os # NoOs /\ rs[i].os # os_name)
         IN  IF os_match /\ rs[i].action = "disallow" THEN FALSE
             ELSE apply_rules_from(rs, os_name, i + 1)

apply_rules(rs, p) ==
    IF rs = <<>> THEN TRUE ELSE apply_rules_from(rs, CurrentOsNoob(p), 1)

\* the verdict as the launch code uses it
Verdict(b) == IF b THEN "included" ELSE "excluded"

\* the evaluators before any call
EvalUnset ==
    [sam |-> "unset", noob |-> "unset", sam_arg |-> "unset", noob_arg |-> "unset"]

\* a library with these rules goes through is_library_allowed (sam)
EvalSam ==
    /\ evVerdict.sam = "unset"
    /\ evVerdict' = [evVerdict EXCEPT !.sam =
           Verdict(is_library_allowed([rules |-> evRules], CurrentOsSam(platform)))]
    /\ UNCHANGED <<platform, evRules, evHasRules>>

\* a library with these rules goes through apply_rules (noob)
EvalNoob ==
    /\ evVerdict.noob = "unset"
    /\ evVerdict' = [evVerdict EXCEPT !.noob = Verdict(apply_rules(evRules, platform))]
    /\ UNCHANGED <<platform, evRules, evHasRules>>

\* samsoftbuild0a.build_launch_command: whether a dict entry of
\* arguments.jvm / arguments.game that has a "value" contributes it
sam_arg_included(has_rules, rs, os_name) ==
    has_rules /\ should_include(rs, os_name)

\* noobv0.resolve_arguments: whether a dict entry contributes its value
noob_arg_included(has_rules, rs, p) ==
    apply_rules(IF has_rules THEN rs ELSE <<>>, p)

\* an argument entry with these rules goes through build_launch_command (sam)
EvalSamArg ==
    /\ evVerdict.sam_arg = "unset"
    /\ evVerdict' = [evVerdict EXCEPT !.sam_arg =
           Verdict(sam_arg_included(evHasRules, evRules, CurrentOsSam(platform)))]
    /\ UNCHANGED <<platform, evRules, evHasRules>>

\* an argument entry with these rules goes through resolve_arguments (noob)
EvalNoobArg ==
    /\ evVerdict.noob_arg = "unset"
    /\ evVerdict' = [evVerdict EXCEPT !.noob_arg =
           Verdict(noob_arg_included(evHasRules, evRules, platform))]
    /\ UNCHANGED <<platform, evRules, evHasRules>>

-----------------------------------------------------------------------------
(* 2. Files, hashes, the network *)

\* most library entries in a manifest
MaxLibs == 2

\* thread 0 is the caller's thread, 1..MaxLibs are pool workers
Threads == 0 .. MaxLibs

\* coordinates (group:artifact:version) of the libraries a manifest may name
Names == {"a", "b"}

\* the files of the model
Paths == {"libraries/a.jar", "libraries/b.jar", "libraries/alt.jar",
          "libraries/a-natives.jar", "libraries/b-natives.jar",
          "natives/a-natives.jar", "natives/b-natives.jar",
          "versions/v.json", "versions/v.jar",
          "mods/mod.jar", "java/openjdk.tar.gz"}

NoFile == "absent"

\* bytes a file may hold: none, the bytes the descriptor's hash names, other bytes
Contents == {"empty", "good", "bad"}

\* hashlib.sha1(bytes).hexdigest(), injective on the contents of the model
Sha1(c) ==
    CASE c = "empty" -> "da39a3ee"
      [] c = "good"  -> "sha1-of-good"
      [] c = "bad"   -> "sha1-of-bad"

\* a descriptor without a hash (expected_sha1 is None)
NoSha == "none"

\* os.path.exists
exists(d, path) == d[path] # NoFile

\* samsoftbuild0a.verify_file: False when the file cannot be read
verify_file(d, path, expected_sha1) ==
    IF d[path] = NoFile THEN FALSE ELSE Sha1(d[path]) = expected_sha1

-----------------------------------------------------------------------------
(* 3. samsoftbuild0a._download_with_retry *)

\* default of the max_retries parameter, which every caller uses
DefaultMaxRetries == 3

\* largest max_retries argument tried when the function is called on its own
MaxRetriesArg == 3

\* what one attempt can raise: urlopen fails, the body ends early, the size check
Exceptions == {"URLError", "ContentTooShortError", "ValueError: Empty download"}

NoExc == "none"

\* no call in progress on this thread
RetryIdle ==
    [status |-> "idle", path |-> "mods/mod.jar", max_retries |-> 0, attempt |-> 0,
     requests |-> 0, sleeps |-> <<>>, last |-> NoExc, exc |-> NoExc]

\* entry of _download_with_retry(url, path, max_retries)
RetryCall(path, max_retries) ==
    [RetryIdle EXCEPT !.status = "running", !.path = path, !.max_retries = max_retries]

\* an except clause that backs off after the last attempt too
download_with_retry_except_late(r, e) ==
    IF r.attempt = r.max_retries
    THEN [r EXCEPT !.status = "raised", !.exc = e]
    ELSE [r EXCEPT !.status = "running",
                   !.sleeps = Append(@, Pow2(r.attempt)),
                   !.attempt = @ + 1]

\* the except clause: re-raise on the last attempt, else back off and go on
download_with_retry_except(r, e) ==
    IF r.attempt = r.max_retries - 1
    THEN [r EXCEPT !.status = "raised", !.exc = e]
    ELSE [r EXCEPT !.status = "running",
                   !.sleeps = Append(@, Pow2(r.attempt)),
                   !.attempt = @ + 1]

\* an attempt raises e and the last attempt's exception is swallowed: the
\* call falls out of the loop to return False
RetryRaiseSwallowed(r, e) ==
    IF r.attempt = r.max_retries - 1
    THEN [r EXCEPT !.status = "false", !.last = e]
    ELSE download_with_retry_except(r, e)

\* an attempt raises e: the except clause runs; last keeps what the final
\* attempt raised
RetryRaise(r, e) ==
    LET h == download_with_retry_except(r, e)
    IN  [h EXCEPT !.last = IF h.status = "raised" THEN e ELSE NoExc]

\* urlretrieve opens the connection; on success it opens the file for writing
RetryConnect(t) ==
    /\ retry[t].status = "running"
    /\ retry[t].attempt < retry[t].max_retries
    /\ LET r == [retry[t] EXCEPT !.requests = @ + 1] IN
       \/ /\ retry' = [retry EXCEPT ![t] = RetryRaise(r, "URLError")]
          /\ UNCHANGED disk
       \/ /\ retry' = [retry EXCEPT ![t] = [r EXCEPT !.status = "writing"]]
          /\ disk' = [disk EXCEPT ![r.path] = "empty"]

\* urlretrieve writes the body and returns or raises; then the size check
RetryFinish(t) ==
    /\ retry[t].status = "writing"
    /\ LET r == retry[t] IN
       \/ \E body \in Contents :
            /\ disk' = [disk EXCEPT ![r.path] = body]
            /\ retry' = [retry EXCEPT ![t] =
                 IF body = "empty"
                 THEN RetryRaise(r, "ValueError: Empty download")
                 ELSE [r EXCEPT !.status = "true"]]
       \/ \E part \in {"empty", "bad"} :
            /\ disk' = [disk EXCEPT ![r.path] = part]
            /\ retry' = [retry EXCEPT ![t] = RetryRaise(r, "ContentTooShortError")]

\* the for loop ends without a return: return False
RetryExhausted(t) ==
    /\ retry[t].status = "running"
    /\ retry[t].attempt >= retry[t].max_retries
    /\ retry' = [retry EXCEPT ![t].status = "false"]
    /\ UNCHANGED disk

RetryStep(t) == RetryConnect(t) \/ RetryFinish(t) \/ RetryExhausted(t)

-----------------------------------------------------------------------------
(* 4. samsoftbuild0a: download_version_files, _download_library,            *)
(*    build_launch_command                                                  *)

\* launches of the same version, one after the other
MaxRuns == 2

\* ThreadPoolExecutor(max_workers=5)
PoolWidth == 5

Workers == 1 .. MaxLibs

\* a library entry of the manifest:
\*   name       its coordinate
\*   rules      its rule list
\*   downloads  "none": no "downloads" key; "computed": downloads.artifact with the
\*              path the coordinate gives; "alt": downloads.artifact with another path
\*   natives    the OS names its "natives" map has
LibDescriptors ==
    [name : Names,
     rules : {<<>>, <<[os |-> "linux", features |-> FALSE, action |-> "disallow"]>>},
     downloads : {"none", "computed", "alt"},
     natives : {{}, OSNames}]

\* group_path/artifact/version/artifact-version.jar under libraries_dir
ComputedPath(name) ==
    CASE name = "a" -> "libraries/a.jar"
      [] name = "b" -> "libraries/b.jar"

\* _download_library: where the artifact is stored
lib_path(lib) ==
    CASE lib.downloads = "none"     -> ComputedPath(lib.name)
      [] lib.downloads = "computed" -> ComputedPath(lib.name)
      [] lib.downloads = "alt"      -> "libraries/alt.jar"

\* _download_library: the artifact's expected_sha1, None without "downloads"
expected_sha1(lib) == IF lib.downloads = "none" THEN NoSha ELSE Sha1("good")

\* _download_library: natives_dir/artifact-version-classifier.jar
native_path(lib) ==
    CASE lib.name = "a" -> "natives/a-natives.jar"
      [] lib.name = "b" -> "natives/b-natives.jar"

\* _download_library: expected_sha1_native, None without "downloads"
expected_sha1_native(lib) == IF lib.downloads = "none" THEN NoSha ELSE Sha1("good")

\* the condition guarding every download: missing, or hashed and not verifying
needs_download(d, path, sha) ==
    ~exists(d, path) \/ (sha # NoSha /\ ~verify_file(d, path, sha))

\* jar_path and data["downloads"]["client"]["sha1"] of the version
JarPath == "versions/v.jar"

JarSha == Sha1("good")

JsonPath == "versions/v.json"

\* the libraries download_version_files submits, in manifest order
RECURSIVE SubmittedFrom(_, _, _)
SubmittedFrom(libs, os, i) ==
    IF i > Len(libs) THEN <<>>
    ELSE IF is_library_allowed(libs[i], os)
         THEN <<i>> \o SubmittedFrom(libs, os, i + 1)
         ELSE SubmittedFrom(libs, os, i + 1)

Submitted(libs, os) == SubmittedFrom(libs, os, 1)

\* build_launch_command: the libraries put on the classpath after the JAR
RECURSIVE ClasspathFrom(_, _, _, _)
ClasspathFrom(libs, os, d, i) ==
    IF i > Len(libs) THEN <<>>
    ELSE IF is_library_allowed(libs[i], os) /\ exists(d, ComputedPath(libs[i].name))
         THEN <<i>> \o ClasspathFrom(libs, os, d, i + 1)
         ELSE ClasspathFrom(libs, os, d, i + 1)

\* a classpath collected as the fetches complete
BuildClasspathByCompletion(libs, os, d, done) ==
    LET Keep(i) == is_library_allowed(libs[i], os) /\ exists(d, ComputedPath(libs[i].name))
    IN  SelectSeq(done, Keep)

BuildClasspath(libs, os, d, done) == ClasspathFrom(libs, os, d, 1)

TaskIdle == [pc |-> "none", result |-> "none", reqs |-> 0, prev |-> "none"]

\* launches: how many times the user starts this version
MainIdle == [pc |-> "idle", wait |-> 0, outcome |-> "none", run |-> 0, launches |-> 0]

NoClasspath == <<0>>

\* launch_game starts _prepare_and_launch, which calls download_version_files
SamLaunch ==
    /\ samMain.pc = "idle"
    /\ samMain' = [samMain EXCEPT !.pc = "json", !.run = @ + 1]
    /\ UNCHANGED <<samFrame, fileVars, samManifest, samTask, samDone,
                   samNatives, samClasspath>>

\* vanilla: fetch the version JSON and write it, or show the error and return False
SamFetchJson ==
    /\ samMain.pc = "json"
    /\ \/ /\ samMain' = [samMain EXCEPT !.pc = "returned", !.outcome = "False"]
          /\ UNCHANGED disk
       \/ /\ samMain' = [samMain EXCEPT !.pc = "jar"]
          /\ disk' = [disk EXCEPT ![JsonPath] = "good"]
    /\ UNCHANGED <<samFrame, retry, samManifest, samTask, samDone,
                   samNatives, samClasspath>>

\* the JAR: download it when missing or not verifying
SamJarCheck ==
    /\ samMain.pc = "jar"
    /\ IF needs_download(disk, JarPath, JarSha)
       THEN /\ retry' = [retry EXCEPT ![0] = RetryCall(JarPath, DefaultMaxRetries)]
            /\ samMain' = [samMain EXCEPT !.pc = "jar_dl"]
       ELSE /\ samMain' = [samMain EXCEPT !.pc = "submit"]
            /\ UNCHANGED retry
    /\ UNCHANGED <<samFrame, disk, samManifest, samTask, samDone,
                   samNatives, samClasspath>>

\* the JAR's _download_with_retry, on the launch thread
SamJarRetry ==
    /\ samMain.pc = "jar_dl"
    /\ RetryStep(0)
    /\ UNCHANGED <<samFrame, samVars>>

\* after the JAR's download: the exception propagates, or the hash is checked
SamJarAfter ==
    /\ samMain.pc = "jar_dl"
    /\ retry[0].status \in {"true", "false", "raised"}
    /\ samMain' =
         IF retry[0].status = "raised"
         THEN [samMain EXCEPT !.pc = "returned", !.outcome = "raised"]
         ELSE IF ~verify_file(disk, JarPath, JarSha)
         THEN [samMain EXCEPT !.pc = "returned", !.outcome = "False"]
         ELSE [samMain EXCEPT !.pc = "submit"]
    /\ retry' = [retry EXCEPT ![0] = RetryIdle]
    /\ UNCHANGED <<samFrame, disk, samManifest, samTask, samDone,
                   samNatives, samClasspath>>

\* the submit loop: one _download_library task per allowed library
SamSubmit ==
    /\ samMain.pc = "submit"
    /\ LET os == CurrentOsSam(platform) IN
       samTask' = [i \in Workers |->
           IF i <= Len(samManifest) /\ is_library_allowed(samManifest[i], os)
           THEN [samTask[i] EXCEPT !.pc = "start"]
           ELSE samTask[i]]
    /\ samMain' = [samMain EXCEPT !.pc = "wait", !.wait = 1]
    /\ UNCHANGED <<samFrame, fileVars, samManifest, samDone, samNatives,
                   samClasspath>>

\* the tasks a worker thread is running now
Running == {i \in Workers : samTask[i].pc \notin {"none", "start", "done"}}

\* _download_library, the artifact: decide whether to download
LibCheck(i) ==
    /\ samTask[i].pc = "start"
    /\ Cardinality(Running) < PoolWidth
    /\ LET lib == samManifest[i] IN
       IF needs_download(disk, lib_path(lib), expected_sha1(lib))
       THEN /\ retry' = [retry EXCEPT ![i] = RetryCall(lib_path(lib), DefaultMaxRetries)]
            /\ samTask' = [samTask EXCEPT ![i].pc = "dl"]
       ELSE /\ samTask' = [samTask EXCEPT ![i].pc = "natives"]
            /\ UNCHANGED retry
    /\ UNCHANGED <<samFrame, disk, samManifest, samMain, samDone,
                   samNatives, samClasspath>>

\* a worker's _download_with_retry, for the artifact or for the native archive
LibRetry(i) ==
    /\ samTask[i].pc \in {"dl", "nat_dl"}
    /\ RetryStep(i)
    /\ UNCHANGED <<samFrame, samVars>>

\* the task ends: its future completes with a result or an exception
Finish(t, i, res) ==
    [t EXCEPT !.pc = "done", !.result = res, !.reqs = @ + retry[i].requests]

\* _download_library, after the artifact's download
LibAfterDownload(i) ==
    /\ samTask[i].pc = "dl"
    /\ retry[i].status \in {"true", "false", "raised"}
    /\ LET lib == samManifest[i]
           sha == expected_sha1(lib)
           res == IF retry[i].status = "raised" THEN "raised"
                  ELSE IF retry[i].status = "false" THEN "False"
                  ELSE IF sha # NoSha /\ ~verify_file(disk, lib_path(lib), sha)
                  THEN "False"
                  ELSE "go on"
       IN  IF res = "go on"
           THEN /\ samTask' = [samTask EXCEPT ![i].pc = "natives",
                                              ![i].reqs = @ + retry[i].requests]
                /\ UNCHANGED samDone
           ELSE /\ samTask' = [samTask EXCEPT ![i] = Finish(@, i, res)]
                /\ samDone' = Append(samDone, i)
    /\ retry' = [retry EXCEPT ![i] = RetryIdle]
    /\ UNCHANGED <<samFrame, disk, samManifest, samMain, samNatives,
                   samClasspath>>

\* _download_library, the natives: none for this OS, cached, or to download
NativesCheck(i) ==
    /\ samTask[i].pc = "natives"
    /\ LET lib == samManifest[i] IN
       IF CurrentOsSam(platform) \notin lib.natives
       THEN /\ samTask' = [samTask EXCEPT ![i].pc = "done", ![i].result = "True"]
            /\ samDone' = Append(samDone, i)
            /\ UNCHANGED retry
       ELSE IF needs_download(disk, native_path(lib), expected_sha1_native(lib))
       THEN /\ retry' = [retry EXCEPT ![i] =
                            RetryCall(native_path(lib), DefaultMaxRetries)]
            /\ samTask' = [samTask EXCEPT ![i].pc = "nat_dl"]
            /\ UNCHANGED samDone
       ELSE /\ samTask' = [samTask EXCEPT ![i].pc = "extract"]
            /\ UNCHANGED <<retry, samDone>>
    /\ UNCHANGED <<samFrame, disk, samManifest, samMain, samNatives,
                   samClasspath>>

\* _download_library, after the native archive's download
NativesAfterDownload(i) ==
    /\ samTask[i].pc = "nat_dl"
    /\ retry[i].status \in {"true", "false", "raised"}
    /\ LET lib == samManifest[i]
           sha == expected_sha1_native(lib)
           res == IF retry[i].status = "raised" THEN "raised"
                  ELSE IF retry[i].status = "false" THEN "False"
                  ELSE IF sha # NoSha /\ ~verify_file(disk, native_path(lib), sha)
                  THEN "False"
                  ELSE "go on"
       IN  IF res = "go on"
           THEN /\ samTask' = [samTask EXCEPT ![i].pc = "extract",
                                              ![i].reqs = @ + retry[i].requests]
                /\ UNCHANGED samDone
           ELSE /\ samTask' = [samTask EXCEPT ![i] = Finish(@, i, res)]
                /\ samDone' = Append(samDone, i)
    /\ retry' = [retry EXCEPT ![i] = RetryIdle]
    /\ UNCHANGED <<samFrame, disk, samManifest, samMain, samNatives,
                   samClasspath>>

\* _download_library: extractall into natives_dir, then remove the archive;
\* an archive that is missing or is no zip file ends the task with False
NativesExtract(i) ==
    /\ samTask[i].pc = "extract"
    /\ LET lib == samManifest[i] IN
       IF disk[native_path(lib)] = "good"
       THEN /\ samNatives' = samNatives \cup {lib.name}
            /\ disk' = [disk EXCEPT ![native_path(lib)] = NoFile]
            /\ samTask' = [samTask EXCEPT ![i].pc = "done", ![i].result = "True"]
       ELSE /\ samTask' = [samTask EXCEPT ![i].pc = "done", ![i].result = "False"]
            /\ UNCHANGED <<disk, samNatives>>
    /\ samDone' = Append(samDone, i)
    /\ UNCHANGED <<samFrame, retry, samManifest, samMain, samClasspath>>

\* for future in futures: future.result()
SamWait ==
    /\ samMain.pc = "wait"
    /\ LET futures == Submitted(samManifest, CurrentOsSam(platform)) IN
       IF samMain.wait > Len(futures)
       THEN samMain' = [samMain EXCEPT !.pc = "exit", !.outcome = "True"]
       ELSE LET t == samTask[futures[samMain.wait]] IN
            /\ t.pc = "done"
            /\ samMain' =
                 IF t.result = "True"
                 THEN [samMain EXCEPT !.wait = @ + 1]
                 ELSE [samMain EXCEPT !.pc = "exit", !.outcome = t.result]
    /\ UNCHANGED <<samFrame, fileVars, samManifest, samTask, samDone,
                   samNatives, samClasspath>>

\* leaving the with block without waiting for the workers
SamPoolExitNoWait ==
    /\ samMain.pc = "exit"
    /\ samMain' = [samMain EXCEPT !.pc = "returned"]
    /\ UNCHANGED <<samFrame, fileVars, samManifest, samTask, samDone,
                   samNatives, samClasspath>>

\* leaving the with block: shutdown(wait=True) returns when every worker is done
SamPoolExit ==
    /\ samMain.pc = "exit"
    /\ \A i \in Workers : samTask[i].pc \in {"none", "done"}
    /\ samMain' = [samMain EXCEPT !.pc = "returned"]
    /\ UNCHANGED <<samFrame, fileVars, samManifest, samTask, samDone,
                   samNatives, samClasspath>>

\* build_launch_command: [] without the JSON or the JAR, else the command
SamBuild ==
    /\ samMain.pc = "returned"
    /\ samMain.outcome = "True"
    /\ IF exists(disk, JsonPath) /\ exists(disk, JarPath)
       THEN /\ samClasspath' = BuildClasspath(samManifest, CurrentOsSam(platform),
                                              disk, samDone)
            /\ samMain' = [samMain EXCEPT !.pc = "built"]
       ELSE /\ samMain' = [samMain EXCEPT !.pc = "no command"]
            /\ UNCHANGED samClasspath
    /\ UNCHANGED <<samFrame, fileVars, samManifest, samTask, samDone,
                   samNatives>>

\* the user launches the same version again
SamRelaunch ==
    /\ \/ samMain.pc \in {"built", "no command"}
       \/ samMain.pc = "returned" /\ samMain.outcome # "True"
    /\ samMain.run < samMain.launches
    /\ samMain' = [MainIdle EXCEPT !.pc = "json", !.run = samMain.run + 1,
                                   !.launches = samMain.launches]
    /\ samTask' = [i \in Workers |-> [TaskIdle EXCEPT !.prev = samTask[i].result]]
    /\ samDone' = <<>>
    /\ samClasspath' = NoClasspath
    /\ UNCHANGED <<samFrame, fileVars, samManifest, samNatives>>

-----------------------------------------------------------------------------
(* 5. noobv0: install_libraries, as _prepare_and_launch calls it             *)
(*    (sections 5 and 6 start at the function's entry; the Java step that  *)
(*    _prepare_and_launch runs before these calls is not part of them)     *)

\* a library entry as install_libraries reads it:
\*   downloads  "none": no downloads.artifact; "sha": downloads.artifact with a
\*              sha1; "nosha": downloads.artifact without one
\*   natives    whether downloads.natives has an entry for this host
NoobLibDescriptors ==
    [name : Names,
     rules : {<<>>, <<[os |-> "linux", features |-> FALSE, action |-> "disallow"]>>},
     downloads : {"none", "sha", "nosha"},
     natives : BOOLEAN]

\* lib_dir/group/artifact/artifact-version.jar
noob_lib_path(lib) ==
    CASE lib.name = "a" -> "libraries/a.jar"
      [] lib.name = "b" -> "libraries/b.jar"

\* lib_dir/group/artifact/artifact-version-classifier.jar
noob_nat_local(lib) ==
    CASE lib.name = "a" -> "libraries/a-natives.jar"
      [] lib.name = "b" -> "libraries/b-natives.jar"

NoobIdle ==
    [pc |-> "idle", idx |-> 0, lib_paths |-> <<>>, fetched |-> {}, calls |-> 0,
     launches |-> 0]

\* the loop goes on with the next library
NoobContinue(n) == [n EXCEPT !.pc = "loop", !.idx = @ + 1]

\* entry of install_libraries
NoobCall ==
    /\ noobLib.pc \in {"idle", "command"}
    /\ noobLib.calls < noobLib.launches
    /\ noobLib' = [noobLib EXCEPT !.pc = "loop", !.idx = 1, !.lib_paths = <<>>,
                                  !.fetched = {}, !.calls = @ + 1]
    /\ UNCHANGED <<noobFrame, fileVars, noobManifest, noobNatives>>

\* for lib in data['libraries']: the rules, then whether the file is there
NoobLoop ==
    /\ noobLib.pc = "loop"
    /\ IF noobLib.idx > Len(noobManifest)
       THEN noobLib' = [noobLib EXCEPT !.pc = "returned"]
       ELSE LET lib == noobManifest[noobLib.idx] IN
            IF ~apply_rules(lib.rules, platform)
            THEN noobLib' = NoobContinue(noobLib)
            ELSE IF ~exists(disk, noob_lib_path(lib))
            THEN noobLib' = [noobLib EXCEPT !.pc = "download"]
            ELSE noobLib' = [noobLib EXCEPT !.pc = "append"]
    /\ UNCHANGED <<noobFrame, fileVars, noobManifest, noobNatives>>

\* one urlopen and write of the artifact; a failure skips the library
NoobDownload ==
    /\ noobLib.pc = "download"
    /\ LET lib  == noobManifest[noobLib.idx]
           path == noob_lib_path(lib)
           n    == [noobLib EXCEPT !.fetched = @ \cup {noobLib.idx}]
       IN  \/ \* urlopen raises
              /\ noobLib' = NoobContinue(n)
              /\ UNCHANGED disk
           \/ \* the file is opened, then resp.read() raises
              /\ noobLib' = NoobContinue(n)
              /\ disk' = [disk EXCEPT ![path] = "empty"]
           \/ \E body \in Contents :
                IF lib.downloads = "sha" /\ Sha1(body) # Sha1("good")
                THEN /\ disk' = [disk EXCEPT ![path] = NoFile]
                     /\ noobLib' = NoobContinue(n)
                ELSE /\ disk' = [disk EXCEPT ![path] = body]
                     /\ noobLib' = [n EXCEPT !.pc = "append"]
    /\ UNCHANGED <<noobFrame, retry, noobManifest, noobNatives>>

\* if os.path.exists(lib_path): lib_paths.append(lib_path)
NoobAppend ==
    /\ noobLib.pc = "append"
    /\ LET lib == noobManifest[noobLib.idx]
           n   == IF exists(disk, noob_lib_path(lib))
                  THEN [noobLib EXCEPT !.lib_paths = Append(@, noobLib.idx)]
                  ELSE noobLib
       IN  noobLib' = IF lib.natives THEN [n EXCEPT !.pc = "natives"]
                      ELSE NoobContinue(n)
    /\ UNCHANGED <<noobFrame, fileVars, noobManifest, noobNatives>>

\* the native archive: fetched when missing, then unpacked; every failure is
\* passed over
NoobNativesStep ==
    /\ noobLib.pc = "natives"
    /\ LET lib == noobManifest[noobLib.idx]
           nat == noob_nat_local(lib)
       IN  IF exists(disk, nat)
           THEN /\ noobNatives' = IF disk[nat] = "good"
                                  THEN noobNatives \cup {lib.name} ELSE noobNatives
                /\ UNCHANGED disk
           ELSE \/ /\ UNCHANGED <<disk, noobNatives>>
                \/ /\ disk' = [disk EXCEPT ![nat] = "empty"]
                   /\ UNCHANGED noobNatives
                \/ \E body \in Contents :
                     /\ disk' = [disk EXCEPT ![nat] = body]
                     /\ noobNatives' = IF body = "good"
                                       THEN noobNatives \cup {lib.name}
                                       ELSE noobNatives
    /\ noobLib' = NoobContinue(noobLib)
    /\ UNCHANGED <<noobFrame, retry, noobManifest>>

\* _prepare_and_launch: the classpath and the command from lib_paths
NoobBuildCommand ==
    /\ noobLib.pc = "returned"
    /\ noobLib' = [noobLib EXCEPT !.pc = "command"]
    /\ UNCHANGED <<noobFrame, fileVars, noobManifest, noobNatives>>

-----------------------------------------------------------------------------
(* 6. noobv0: download_version_files, as _prepare_and_launch calls it        *)

\* top-level download_version_files calls of one launch thread in a session
MaxCalls == 2

\* the ids in self.versions
VersionIds == {"v1", "v2", "v3"}

\* an mc_version that is not a key of self.versions
UnknownId == "unknown"

\* the threads launch_game starts, one per click on the launch button
ResThreads == {1, 2}

\* an entry of self.versions: loader, the base version of a fabric entry,
\* whether it has a 'url'
VersionInfos ==
    [loader : {"vanilla", "forge"}, mc_version : {"none"}, url : BOOLEAN]
    \cup [loader : {"fabric"}, mc_version : VersionIds \cup {UnknownId}, url : BOOLEAN]

NoFiles == [json |-> NoFile, jar |-> NoFile]

\* a token of a version document: a library entry, an argument, a class name
Tok(v, name) == [of |-> v, tok |-> name]

\* no document at that path
NoDoc ==
    [id |-> "none", libraries |-> <<>>, mainClass |-> Tok("none", "none"),
     jvm |-> <<>>, game |-> <<>>]

\* the version JSON the vanilla manifest's url serves for v
VanillaResponse(v) ==
    [id |-> v,
     libraries |-> <<Tok(v, "library 1"), Tok(v, "library 2")>>,
     mainClass |-> Tok(v, "mainClass"),
     jvm |-> <<Tok(v, "jvm argument")>>,
     game |-> <<Tok(v, "game argument")>>]

\* loader_response[-1] of the Fabric meta url for v; has_arguments: whether
\* launcherMeta carries 'arguments'
LoaderItem(v) ==
    [loader_version |-> Tok(v, "fabric-loader"),
     launcherMeta |->
       [libraries |-> [common |-> <<Tok(v, "common library")>>,
                       client |-> <<Tok(v, "client library")>>,
                       server |-> <<Tok(v, "server library")>>],
        mainClass |-> [client |-> Tok(v, "mainClass.client"),
                       server |-> Tok(v, "mainClass.server")],
        has_arguments |-> (v # "v2"),
        arguments |-> [common |-> <<Tok(v, "common argument")>>,
                       client |-> <<Tok(v, "client argument")>>]]]

\* a merge that puts the loader's libraries in front of the base version's
merge_fabric_child_first(vanilla_data, loader_item, version) ==
    [id |-> version,
     libraries |-> loader_item.launcherMeta.libraries.common
                      \o loader_item.launcherMeta.libraries.client
                      \o vanilla_data.libraries,
     mainClass |-> loader_item.launcherMeta.mainClass.client,
     jvm |-> vanilla_data.jvm,
     game |-> vanilla_data.game
                 \o <<Tok(version, "--versionType"), loader_item.loader_version>>]

\* the merge of download_version_files: the loader's data onto vanilla_data
merge_fabric(vanilla_data, loader_item, version) ==
    LET launcher_meta == loader_item.launcherMeta
        extra == IF launcher_meta.has_arguments
                 THEN launcher_meta.arguments.common \o launcher_meta.arguments.client
                 ELSE <<>>
    IN  [id |-> version,
         libraries |-> vanilla_data.libraries \o launcher_meta.libraries.common
                          \o launcher_meta.libraries.client,
         mainClass |-> launcher_meta.mainClass.client,
         jvm |-> vanilla_data.jvm \o extra,
         game |-> vanilla_data.game \o extra
                     \o <<Tok(version, "--versionType"), loader_item.loader_version>>]

\* a launch thread before its first call; limit: how many calls it will make
TopIdle == [version |-> "none", ret |-> "none", errs |-> {}, calls |-> 0, limit |-> 0]

Frame(v) == [version |-> v, pc |-> "entry", sub |-> "none"]

\* the innermost call of thread t
Cur(t) == resStack[t][Len(resStack[t])]

\* the innermost call of thread t moves to pc
Goto(t, pc) == resStack' = [resStack EXCEPT ![t][Len(resStack[t])].pc = pc]

\* the innermost call of thread t returns ok to its caller; msgs are the
\* errors it showed
Return(t, ok, msgs) ==
    LET st == resStack[t]
        n  == Len(st)
    IN  /\ resStack' = [resStack EXCEPT ![t] =
              IF n = 1 THEN <<>>
              ELSE [SubSeq(st, 1, n - 1) EXCEPT ![n - 1].sub = ok]]
        /\ resTop' = [resTop EXCEPT
                        ![t].ret = IF n = 1 THEN ok ELSE @,
                        ![t].errs = @ \cup msgs]

\* an exception inside the try: the except clause shows it and returns False,
\* the finally clause takes the version out of downloaded_versions
Fail(t, msg) ==
    /\ Return(t, "False", {msg})
    /\ downloaded_versions' = downloaded_versions \ {Cur(t).version}

\* return True at the end of the try, through the finally clause
Succeed(t) ==
    /\ Return(t, "True", {})
    /\ downloaded_versions' = downloaded_versions \ {Cur(t).version}

\* _prepare_and_launch calls download_version_files(version, version_info);
\* a modloader entry without 'url' is turned away before the call
ResCall(t, v) ==
    /\ resStack[t] = <<>>
    /\ resTop[t].calls < resTop[t].limit
    /\ versions[v].loader = "vanilla" \/ versions[v].url
    /\ resStack' = [resStack EXCEPT ![t] = <<Frame(v)>>]
    /\ resTop' = [resTop EXCEPT ![t] =
                    [@ EXCEPT !.version = v, !.ret = "none", !.errs = {},
                              !.calls = @ + 1]]
    /\ UNCHANGED <<resFrame, versions, downloaded_versions, resFiles, resDocs>>

\* the recursion guard, the cache check and the 'url' check
ResEntry(t) ==
    /\ resStack[t] # <<>>
    /\ Cur(t).pc = "entry"
    /\ LET v == Cur(t).version IN
       IF v \in downloaded_versions
       THEN /\ Return(t, "True", {})
            /\ UNCHANGED downloaded_versions
       ELSE IF resFiles[v].json # NoFile
       THEN /\ Return(t, "True", {})
            /\ downloaded_versions' = downloaded_versions \cup {v}
       ELSE IF ~versions[v].url
       THEN /\ Return(t, "False", {"No URL for version"})
            /\ UNCHANGED downloaded_versions
       ELSE /\ Goto(t, "fetch")
            /\ downloaded_versions' = downloaded_versions \cup {v}
            /\ UNCHANGED resTop
    /\ UNCHANGED <<resFrame, versions, resFiles, resDocs>>

\* urlopen(version_info['url']) and json.loads, then the loader's branch
ResFetch(t) ==
    /\ resStack[t] # <<>>
    /\ Cur(t).pc = "fetch"
    /\ LET v == Cur(t).version
           info == versions[v]
       IN  \/ /\ Fail(t, "URLError")
              /\ UNCHANGED <<resFiles, resDocs>>
           \/ /\ info.loader = "forge"
              /\ Fail(t, "installer is no JSON")
              /\ UNCHANGED <<resFiles, resDocs>>
           \/ /\ info.loader = "fabric"
              /\ IF info.mc_version = UnknownId
                 THEN Fail(t, "Vanilla version not found for Fabric")
                 ELSE IF resFiles[info.mc_version].json = NoFile
                 THEN /\ resStack' = [resStack EXCEPT ![t] =
                           Append([@ EXCEPT ![Len(@)].pc = "parent"],
                                  Frame(info.mc_version))]
                      /\ UNCHANGED <<resTop, downloaded_versions>>
                 ELSE /\ Goto(t, "merge")
                      /\ UNCHANGED <<resTop, downloaded_versions>>
              /\ UNCHANGED <<resFiles, resDocs>>
           \/ /\ info.loader = "vanilla"
              /\ resFiles' = [resFiles EXCEPT ![v].json = "good"]
              /\ resDocs' = [resDocs EXCEPT ![v] = VanillaResponse(v)]
              /\ Goto(t, "jar")
              /\ UNCHANGED <<resTop, downloaded_versions>>
    /\ UNCHANGED <<resFrame, versions>>

\* back from download_version_files(mc_version, vanilla_info)
ResAfterParent(t) ==
    /\ resStack[t] # <<>>
    /\ Cur(t).pc = "parent"
    /\ Cur(t).sub # "none"
    /\ IF Cur(t).sub = "False"
       THEN Fail(t, "Failed to download vanilla for Fabric")
       ELSE /\ Goto(t, "merge")
            /\ UNCHANGED <<resTop, downloaded_versions>>
    /\ UNCHANGED <<resFrame, versions, resFiles, resDocs>>

\* open(vanilla_path), merge the loader's data, write the version's JSON
ResMerge(t) ==
    /\ resStack[t] # <<>>
    /\ Cur(t).pc = "merge"
    /\ LET v == Cur(t).version
           mc == versions[v].mc_version
       IN  IF resFiles[mc].json = NoFile
           THEN /\ Fail(t, "FileNotFoundError")
                /\ UNCHANGED <<resFiles, resDocs>>
           ELSE \/ /\ Fail(t, "No loader data available")
                   /\ UNCHANGED <<resFiles, resDocs>>
                \/ /\ resFiles' = [resFiles EXCEPT ![v].json = "good"]
                   /\ resDocs' = [resDocs EXCEPT ![v] =
                                    merge_fabric(resDocs[mc], LoaderItem(v), v)]
                   /\ Goto(t, "vanilla jar")
                   /\ UNCHANGED <<resTop, downloaded_versions>>
    /\ UNCHANGED <<resFrame, versions>>

\* fabric: the base version's JAR, fetched when missing, then copied
ResVanillaJar(t) ==
    /\ resStack[t] # <<>>
    /\ Cur(t).pc = "vanilla jar"
    /\ LET v == Cur(t).version
           mc == versions[v].mc_version
       IN  IF resFiles[mc].jar # NoFile
           THEN /\ resFiles' = [resFiles EXCEPT ![v].jar = resFiles[mc].jar]
                /\ Succeed(t)
           ELSE \/ /\ Fail(t, "URLError")
                   /\ UNCHANGED resFiles
                \/ /\ Fail(t, "URLError")
                   /\ resFiles' = [resFiles EXCEPT ![mc].jar = "empty"]
                \/ \E body \in Contents :
                     IF body # "good"
                     THEN /\ resFiles' = [resFiles EXCEPT ![mc].jar = body]
                          /\ Fail(t, "SHA1 mismatch for vanilla JAR")
                     ELSE /\ resFiles' = [resFiles EXCEPT ![mc].jar = body,
                                                          ![v].jar = body]
                          /\ Succeed(t)
    /\ UNCHANGED <<resFrame, versions, resDocs>>

\* vanilla: the version's JAR is fetched and its SHA-1 compared
ResJar(t) ==
    /\ resStack[t] # <<>>
    /\ Cur(t).pc = "jar"
    /\ LET v == Cur(t).version IN
       \/ /\ Fail(t, "URLError")
          /\ UNCHANGED resFiles
       \/ /\ Fail(t, "URLError")
          /\ resFiles' = [resFiles EXCEPT ![v].jar = "empty"]
       \/ \E body \in Contents :
            /\ resFiles' = [resFiles EXCEPT ![v].jar = body]
            /\ IF body # "good" THEN Fail(t, "SHA1 mismatch for JAR") ELSE Succeed(t)
    /\ UNCHANGED <<resFrame, versions, resDocs>>

-----------------------------------------------------------------------------
(* 7. samsoftbuild0a: the version JSON of download_version_files *)

\* the entries load_version_manifest builds: vanilla ones from the manifest,
\* forge ones with 'mc_version', the fabric one with 'inheritsFrom' and 'json'
SamVersionInfos ==
    [loader : {"vanilla", "forge"}, inheritsFrom : {"none"}]
        \cup [loader : {"fabric"}, inheritsFrom : VersionIds]

\* fabric_data: the profile JSON of the Fabric meta server, the loader's own
\* libraries and arguments under the loader's id
FabricProfile(v) ==
    [id |-> v,
     libraries |-> LoaderItem(v).launcherMeta.libraries.common
                      \o LoaderItem(v).launcherMeta.libraries.client,
     mainClass |-> LoaderItem(v).launcherMeta.mainClass.client,
     jvm |-> LoaderItem(v).launcherMeta.arguments.common,
     game |-> LoaderItem(v).launcherMeta.arguments.client]

NoJson == [version |-> "none", outcome |-> "none"]

\* the JSON step of download_version_files(version_id, version_info): forge
\* reads what the installer generated, fabric writes version_info["json"] as
\* it is, vanilla writes the response of version_info["url"] or returns False
SamPersist(version_id) ==
    /\ LET loader == samVersions[version_id].loader IN
       \/ /\ loader = "forge"
          /\ samJson' = [version |-> version_id, outcome |-> "installer"]
          /\ UNCHANGED samDocs
       \/ /\ loader = "fabric"
          /\ samDocs' = [samDocs EXCEPT ![version_id] = FabricProfile(version_id)]
          /\ samJson' = [version |-> version_id, outcome |-> "written"]
       \/ /\ loader = "vanilla"
          /\ samDocs' = [samDocs EXCEPT ![version_id] = VanillaResponse(version_id)]
          /\ samJson' = [version |-> version_id, outcome |-> "written"]
       \/ /\ loader = "vanilla"
          /\ samJson' = [version |-> version_id, outcome |-> "False"]
          /\ UNCHANGED samDocs
    /\ UNCHANGED <<platform, ruleVars, fileVars, samVars, noobVars, resVars,
                   zipVars, lateVars, samVersions>>

-----------------------------------------------------------------------------
(* 8. Extraction of a native archive into natives_dir                       *)

\* the longest archive examined
MaxEntries == 3

\* natives_dir, as path components below the file system's root
NativesDir == <<"versions", "natives">>

\* entry names of an archive, split at "/"; a leading "/" component stands
\* for an absolute name; all entries are files
EntryNames ==
    {<<"lib.so">>, <<"sub", "lib.so">>, <<"META-INF", "MANIFEST.MF">>,
     <<"..", "..", "evil">>, <<"/", "etc", "evil">>}

\* archives: up to MaxEntries entries with distinct names
Archives ==
    {a \in UNION {[1..n -> EntryNames] : n \in 0..MaxEntries} :
        \A i, j \in DOMAIN a : i # j => a[i] # a[j]}

RECURSIVE ResolveFrom(_, _)
\* the file the operating system opens for a path: ".." steps to the parent
\* directory, and the root is its own parent
ResolveFrom(at, path) ==
    IF path = <<>> THEN at
    ELSE IF Head(path) = ".."
    THEN ResolveFrom(IF at = <<>> THEN <<>> ELSE SubSeq(at, 1, Len(at) - 1), Tail(path))
    ELSE ResolveFrom(Append(at, Head(path)), Tail(path))

\* os.path.join(natives_dir, file_name): an absolute file_name replaces
\* natives_dir
join(dir, file_name) ==
    IF file_name # <<>> /\ Head(file_name) = "/" THEN Tail(file_name)
    ELSE dir \o file_name

\* the file is below natives_dir
InsideNatives(file) ==
    /\ Len(file) > Len(NativesDir)
    /\ SubSeq(file, 1, Len(NativesDir)) = NativesDir

NotExtracted == [done |-> FALSE, wrote |-> {}, archive_kept |-> TRUE]

\* noobv0.install_libraries: every name of z.namelist() that does not start
\* with 'META-INF/' is written to os.path.join(natives_dir, file_name)
noob_extract(archive) ==
    {[entry |-> archive[i], file |-> ResolveFrom(<<>>, join(NativesDir, archive[i]))] :
        i \in {j \in DOMAIN archive : Head(archive[j]) # "META-INF"}}

\* ZipFile.extractall(natives_dir): every member is written below natives_dir
\* under its name without the leading "/" and without ".." components
IsValidPart(part) == part \notin {"/", "..", ".", ""}

extractall(archive) ==
    {[entry |-> archive[i], file |-> NativesDir \o SelectSeq(archive[i], IsValidPart)] :
        i \in DOMAIN archive}

\* the try block of install_libraries around the archive
ExtractNoob ==
    /\ ~exOut.noob.done
    /\ exOut' = [exOut EXCEPT !.noob =
                    [done |-> TRUE, wrote |-> noob_extract(exArchive),
                     archive_kept |-> TRUE]]
    /\ UNCHANGED <<platform, ruleVars, fileVars, samVars, noobVars, resVars,
                   mergeVars, lateVars, exArchive>>

\* the try block of _download_library: extractall, then os.remove(native_path)
ExtractSam ==
    /\ ~exOut.sam.done
    /\ exOut' = [exOut EXCEPT !.sam =
                    [done |-> TRUE, wrote |-> extractall(exArchive),
                     archive_kept |-> FALSE]]
    /\ UNCHANGED <<platform, ruleVars, fileVars, samVars, noobVars, resVars,
                   mergeVars, lateVars, exArchive>>

-----------------------------------------------------------------------------
(* 9. _prepare_and_launch: the Java runtime, the downloads, the process      *)

\* the deepest nesting of calls the interpreter allows before RecursionError
MaxDepth == 4

SamLaunchIdle ==
    [pc |-> "idle", java |-> FALSE, provision |-> "none", fetched |-> {},
     assets |-> "none", spawned |-> FALSE]

NoobLaunchIdle == [pc |-> "idle", entry |-> "none", installed |-> FALSE, depth |-> 0]

\* samsoftbuild0a.install_java_if_needed: nothing to do when get_java_path
\* finds a Java; else download and unpack, a failure is shown and swallowed
LnSamJava ==
    /\ lnSam.pc = "java"
    /\ \/ /\ lnSam.java
          /\ lnSam' = [lnSam EXCEPT !.pc = "version", !.provision = "available"]
       \/ /\ ~lnSam.java
          /\ lnSam' = [lnSam EXCEPT !.pc = "version", !.provision = "installed",
                                    !.java = TRUE]
       \/ /\ ~lnSam.java
          /\ lnSam' = [lnSam EXCEPT !.pc = "version", !.provision = "failed"]
    /\ UNCHANGED <<launchFrame, lnNoob>>

\* if not self.download_version_files(version, version_info): return
LnSamVersion ==
    /\ lnSam.pc = "version"
    /\ \/ lnSam' = [lnSam EXCEPT !.pc = "assets",
                                 !.fetched = @ \cup {"version", "libraries"}]
       \/ \E started \in {{"version"}, {"version", "libraries"}} :
            lnSam' = [lnSam EXCEPT !.pc = "ended", !.fetched = @ \cup started]
    /\ UNCHANGED <<launchFrame, lnNoob>>

\* what download_assets can come to: no assetIndex in the JSON, everything
\* fetched, the index request or its SHA-1 check failed, an object's
\* download raised, an object stored with a wrong hash
AssetOutcomes ==
    {"no index", "complete", "index failed", "object failed", "object unverified"}

\* self.download_assets(version): every exception ends in the except clause
\* that prints it; the caller goes on
LnSamAssets ==
    /\ lnSam.pc = "assets"
    /\ \E outcome \in AssetOutcomes :
         lnSam' = [lnSam EXCEPT !.pc = "build", !.assets = outcome,
                                !.fetched = IF outcome = "no index" THEN @
                                            ELSE @ \cup {"assets"}]
    /\ UNCHANGED <<launchFrame, lnNoob>>

\* build_launch_command returns [] when get_java_path finds no Java
LnSamBuild ==
    /\ lnSam.pc = "build"
    /\ lnSam' = [lnSam EXCEPT !.pc = IF lnSam.java THEN "spawn" ELSE "ended"]
    /\ UNCHANGED <<launchFrame, lnNoob>>

\* subprocess.Popen(full_command)
LnSamSpawn ==
    /\ lnSam.pc = "spawn"
    /\ lnSam' = [lnSam EXCEPT !.pc = "ended", !.spawned = TRUE]
    /\ UNCHANGED <<launchFrame, lnNoob>>

\* noobv0: get_java_path calls install_java_if_needed as its first statement,
\* install_java_if_needed calls get_java_path as its first statement
LnNoobDescend ==
    /\ lnNoob.pc = "calling"
    /\ lnNoob.depth < MaxDepth
    /\ lnNoob' = [lnNoob EXCEPT !.depth = @ + 1]
    /\ UNCHANGED <<launchFrame, lnSam>>

\* the interpreter refuses the next call: RecursionError leaves every frame
LnNoobOverflow ==
    /\ lnNoob.pc = "calling"
    /\ lnNoob.depth = MaxDepth
    /\ lnNoob' = [lnNoob EXCEPT !.pc = "RecursionError", !.depth = 0]
    /\ UNCHANGED <<launchFrame, lnSam>>

-----------------------------------------------------------------------------
(* 10. The launch command: noobv0._prepare_and_launch and                    *)
(*     samsoftbuild0a.build_launch_command, with the JSON, the JAR and a    *)
(*     Java at hand                                                         *)

\* the longest argument list examined
MaxArgs == 2

\* a template is a sequence of pieces: literal text, or a {name} field
Text(str) == [kind |-> "text", name |-> str]

Token(name) == [kind |-> "token", name |-> name]

\* the value a placeholder stands for
ValueOf(name) == [kind |-> "value", name |-> name]

Lit(str) == <<Text(str)>>

\* the keys of noobv0.get_placeholders
PlaceholderNames ==
    {"auth_player_name", "version_name", "game_directory", "assets_root",
     "assets_index_name", "auth_uuid", "auth_access_token", "user_type",
     "auth_session", "auth_offline_name"}

\* templates of a manifest: a literal, "${auth_player_name}" and
\* "${version_type}", which get_placeholders does not know
Templates ==
    {Lit("--demo"),
     <<Text("$"), Token("auth_player_name")>>,
     <<Text("$"), Token("version_type")>>}

\* str.format(**placeholders) raises KeyError for a field it has no key for
RaisesKeyError(template) ==
    \E i \in DOMAIN template :
        template[i].kind = "token" /\ template[i].name \notin PlaceholderNames

\* str.format(**placeholders) when every field has a key
format(template) ==
    [i \in DOMAIN template |->
        IF template[i].kind = "token" THEN ValueOf(template[i].name) ELSE template[i]]

\* an item of arguments.jvm or arguments.game: a string, or a dict with a
\* string 'value' and, when has_rules, a 'rules' list
ArgItems ==
    [is_dict : {FALSE}, has_rules : {FALSE}, rules : {<<>>}, value : Templates]
    \cup [is_dict : {TRUE}, has_rules : {FALSE}, rules : {<<>>},
          value : {Lit("--demo")}]
    \cup [is_dict : {TRUE}, has_rules : {TRUE},
          rules : {<<[os |-> "linux", features |-> FALSE, action |-> "disallow"]>>,
                   <<[os |-> "linux", features |-> FALSE, action |-> "allow"]>>},
          value : {Lit("--demo")}]

\* the argument part of a version JSON: minecraftArguments as its words when
\* has_legacy, arguments.jvm and arguments.game when has_arguments; loader is
\* the loader of the self.versions entry
CmdDocs ==
    [has_legacy : BOOLEAN, words : SeqsUpTo(Templates, MaxArgs),
     has_arguments : BOOLEAN, jvm : SeqsUpTo(ArgItems, 1),
     game : SeqsUpTo(ArgItems, MaxArgs),
     loader : {"vanilla", "forge", "fabric"}]

NoCmdDoc ==
    [has_legacy |-> FALSE, words |-> <<>>, has_arguments |-> FALSE, jvm |-> <<>>,
     game |-> <<>>, loader |-> "vanilla"]

\* an element of the command and what it is there for
El(role, text) == [role |-> role, text |-> text]

CmdUnset == [status |-> "unset", argv |-> <<>>]

RECURSIVE resolve_arguments(_, _, _)
\* noobv0.resolve_arguments on a list of strings and dicts with string values
resolve_arguments(args, p, role) ==
    IF args = <<>> THEN <<>>
    ELSE LET item == Head(args)
             rest == resolve_arguments(Tail(args), p, role)
             formatted == IF RaisesKeyError(item.value) THEN item.value
                          ELSE format(item.value)
         IN  IF item.is_dict /\ ~noob_arg_included(item.has_rules, item.rules, p)
             THEN rest
             ELSE <<El(role, formatted)>> \o rest

\* noobv0: data['minecraftArguments'].format(**placeholders).split()
legacy_game_args(words) ==
    [i \in DOMAIN words |-> El("game", format(words[i]))]

\* noobv0._prepare_and_launch from jvm_args to the command
noob_command(doc, p) ==
    LET jvm_args == IF doc.has_arguments THEN resolve_arguments(doc.jvm, p, "jvm")
                    ELSE <<>>
        raises == IF doc.has_legacy
                  THEN \E i \in DOMAIN doc.words : RaisesKeyError(doc.words[i])
                  ELSE ~doc.has_arguments
        game_args == IF doc.has_legacy THEN legacy_game_args(doc.words)
                     ELSE resolve_arguments(doc.game, p, "game")
    IN  IF raises THEN [status |-> "KeyError", argv |-> <<>>]
        ELSE [status |-> "command",
              argv |-> <<El("java", Lit("java")),
                         El("-Xmx", <<Text("-Xmx"), ValueOf("ram"), Text("G")>>),
                         El("-Xms", <<Text("-Xms"), ValueOf("ram"), Text("G")>>),
                         El("natives", <<Text("-Djava.library.path="), ValueOf("natives_dir")>>)>>
                       \o jvm_args
                       \o <<El("cp", <<Text("-cp "), ValueOf("classpath")>>),
                            El("main", <<ValueOf("mainClass")>>)>>
                       \o game_args]

RECURSIVE sam_arguments(_, _, _)
\* samsoftbuild0a: strings as they are, dicts with 'rules' and 'value' when
\* should_include
sam_arguments(args, os_name, role) ==
    IF args = <<>> THEN <<>>
    ELSE LET item == Head(args)
             rest == sam_arguments(Tail(args), os_name, role)
         IN  IF item.is_dict /\ ~sam_arg_included(item.has_rules, item.rules, os_name)
             THEN rest
             ELSE <<El(role, item.value)>> \o rest

\* samsoftbuild0a.build_launch_command from the command list on
sam_command(doc, p) ==
    LET os_name == CurrentOsSam(p)
        modded == doc.loader \in {"forge", "fabric"}
        jvm_args == (IF doc.has_arguments THEN sam_arguments(doc.jvm, os_name, "jvm")
                     ELSE <<>>)
                    \o (IF doc.loader = "forge"
                        THEN <<El("loader flag", Lit("-Dforge.logging.markers=SCAN,REGISTRIES,REGISTRYDUMP"))>>
                        ELSE IF doc.loader = "fabric"
                        THEN <<El("loader flag", Lit("-Dfabric.launcher=true"))>>
                        ELSE <<>>)
        main_class == IF modded THEN Lit(doc.loader) ELSE <<ValueOf("mainClass")>>
        fixed == <<El("game", Lit("--username")), El("game", <<ValueOf("username")>>),
                   El("game", Lit("--uuid")), El("game", <<ValueOf("uuid")>>),
                   El("game", Lit("--accessToken")), El("game", <<ValueOf("access_token")>>),
                   El("game", Lit("--version")), El("game", <<ValueOf("version")>>),
                   El("game", Lit("--gameDir")), El("game", <<ValueOf("NOOB_CLIENT_DIR")>>),
                   El("game", Lit("--assetsDir")), El("game", <<ValueOf("ASSETS_DIR")>>),
                   El("game", Lit("--assetIndex")), El("game", <<ValueOf("assetIndex")>>),
                   El("game", Lit("--modDir"))>>
                 \o (IF modded
                     THEN <<El("game", <<ValueOf("mods")>>),
                            El("game", Lit("--fml.forgeVersion"))>>
                     ELSE <<>>)
        game_args == fixed \o (IF doc.has_arguments
                               THEN sam_arguments(doc.game, os_name, "game") ELSE <<>>)
    IN  [status |-> "command",
         argv |-> <<El("java", <<ValueOf("java_path")>>),
                    El("-Xmx", <<Text("-Xmx"), ValueOf("ram"), Text("G")>>),
                    El("gc flag", Lit("-XX:+UseG1GC")),
                    El("gc flag", Lit("-XX:MaxGCPauseMillis=100")),
                    El("natives", <<Text("-Djava.library.path="), ValueOf("natives_dir")>>),
                    El("cp", Lit("-cp")),
                    El("classpath", <<ValueOf("classpath")>>)>>
                  \o jvm_args \o <<El("main", main_class)>> \o game_args]

BuildNoob ==
    /\ cmdOut.noob.status = "unset"
    /\ cmdOut' = [cmdOut EXCEPT !.noob = noob_command(cmdDoc, platform)]
    /\ UNCHANGED <<cmdFrame, cmdDoc>>

BuildSam ==
    /\ cmdOut.sam.status = "unset"
    /\ cmdOut' = [cmdOut EXCEPT !.sam = sam_command(cmdDoc, platform)]
    /\ UNCHANGED <<cmdFrame, cmdDoc>>

-----------------------------------------------------------------------------
(* 11. The on-disk paths of libraries                                        *)

\* Strings are sequences of characters, so that two paths are equal exactly
\* when the strings the code builds are equal.

\* library entries in one manifest
MaxCoords == 2

\* the groups, artifacts, versions and classifiers of the coordinates
Groups == {<<"g">>, <<"g", ".", "h">>}

Artifacts == {<<"a">>, <<"a", "-", "1">>}

LibVersions == {<<"1">>, <<"1", "-", "2">>}

Classifiers == {<<>>, <<"n">>}

\* lib["name"]: group:artifact:version, with :classifier when there is one
LibName(group, artifact, version_lib, classifier) ==
    group \o <<":">> \o artifact \o <<":">> \o version_lib
        \o (IF classifier = <<>> THEN <<>> ELSE <<":">> \o classifier)

\* the names of a manifest: every coordinate, and one name of two parts
LibNames ==
    {LibName(g, a, v, c) : g \in Groups, a \in Artifacts,
                           v \in LibVersions, c \in Classifiers}
    \cup {<<"g", ":", "a">>}

\* str.split(sep)
RECURSIVE split(_, _)
split(s, sep) ==
    IF \A k \in 1..Len(s) : s[k] # sep
    THEN <<s>>
    ELSE LET k == CHOOSE k \in 1..Len(s) :
                      s[k] = sep /\ \A m \in 1..(k - 1) : s[m] # sep
         IN  <<SubSeq(s, 1, k - 1)>> \o split(SubSeq(s, k + 1, Len(s)), sep)

\* str.replace(old, new) for single characters
replace(s, old, new) == [k \in 1..Len(s) |-> IF s[k] = old THEN new ELSE s[k]]

\* os.path.join and '/'.join of non-empty relative parts
RECURSIVE path_join(_)
path_join(parts) ==
    IF Len(parts) = 1 THEN parts[1]
    ELSE parts[1] \o <<"/">> \o path_join(Tail(parts))

\* libraries_dir, lib_dir
LibrariesDir == <<"L">>

\* f"{artifact}-{version_lib}.jar"
lib_filename(artifact, version_lib) ==
    artifact \o <<"-">> \o version_lib \o <<".", "j", "a", "r">>

NoPath == <<>>

\* build_launch_command: the path looked up for one library name, NoPath for
\* a name of fewer than three parts
sam_classpath_path(name) ==
    LET name_parts == split(name, ":")
    IN  IF Len(name_parts) < 3 THEN NoPath
        ELSE LET group == name_parts[1]
                 artifact == name_parts[2]
                 version_lib == name_parts[3]
                 group_path == replace(group, ".", "/")
             IN  path_join(<<LibrariesDir, group_path, artifact, version_lib,
                             lib_filename(artifact, version_lib)>>)

\* install_libraries: the path one library is stored at and listed with
install_libraries_path(name) ==
    LET name_parts == split(name, ":")
    IN  IF Len(name_parts) < 3 THEN NoPath
        ELSE LET group == name_parts[1]
                 artifact == name_parts[2]
                 version_lib == name_parts[3]
                 path == path_join(<<replace(group, ".", "/"), artifact,
                                     lib_filename(artifact, version_lib)>>)
             IN  path_join(<<LibrariesDir, path>>)

CoUnset == [done |-> FALSE, paths |-> <<>>]

\* build_launch_command walks the libraries of the manifest
PathsSam ==
    /\ ~coOut.sam.done
    /\ coOut' = [coOut EXCEPT !.sam =
           [done |-> TRUE,
            paths |-> [i \in 1..Len(coLibs) |-> sam_classpath_path(coLibs[i])]]]
    /\ UNCHANGED <<coFrame, coLibs>>

\* install_libraries walks the libraries of the manifest
PathsNoob ==
    /\ ~coOut.noob.done
    /\ coOut' = [coOut EXCEPT !.noob =
           [done |-> TRUE,
            paths |-> [i \in 1..Len(coLibs) |-> install_libraries_path(coLibs[i])]]]
    /\ UNCHANGED <<coFrame, coLibs>>

-----------------------------------------------------------------------------
(* Idle values, initial states and specifications *)

IdleDisk == [p \in Paths |-> NoFile]

IdleRetry == [t \in Threads |-> RetryIdle]

IdleRules == evRules = <<>> /\ evHasRules = FALSE /\ evVerdict = EvalUnset

IdleSam ==
    /\ samManifest = <<>>
    /\ samMain = MainIdle
    /\ samTask = [i \in Workers |-> TaskIdle]
    /\ samDone = <<>>
    /\ samNatives = {}
    /\ samClasspath = NoClasspath

IdleNoob ==
    /\ noobManifest = <<>>
    /\ noobLib = NoobIdle
    /\ noobNatives = {}

IdleRes ==
    /\ versions = [v \in VersionIds |-> [loader |-> "vanilla", mc_version |-> "none",
                                        url |-> TRUE]]
    /\ downloaded_versions = {}
    /\ resFiles = [v \in VersionIds |-> NoFiles]
    /\ resDocs = [v \in VersionIds |-> NoDoc]
    /\ resStack = [t \in ResThreads |-> <<>>]
    /\ resTop = [t \in ResThreads |-> TopIdle]

IdleMerge ==
    /\ samVersions = [v \in VersionIds |-> [loader |-> "vanilla", inheritsFrom |-> "none"]]
    /\ samDocs = [v \in VersionIds |-> NoDoc]
    /\ samJson = NoJson

ZipUnset == [sam |-> NotExtracted, noob |-> NotExtracted]

IdleZip == exArchive = <<>> /\ exOut = ZipUnset

IdleLaunch == lnSam = SamLaunchIdle /\ lnNoob = NoobLaunchIdle

IdleCmd == cmdDoc = NoCmdDoc /\ cmdOut = [sam |-> CmdUnset, noob |-> CmdUnset]

IdleCo == coLibs = <<>> /\ coOut = [sam |-> CoUnset, noob |-> CoUnset]

IdleLate == IdleLaunch /\ IdleCmd /\ IdleCo

\* the sections up to the extraction at rest
IdleEarly ==
    /\ platform = "Linux"
    /\ IdleRules
    /\ disk = IdleDisk
    /\ retry = IdleRetry
    /\ IdleSam
    /\ IdleNoob
    /\ IdleRes
    /\ IdleMerge
    /\ IdleZip

\* ---- the rule evaluators on every rule list and host
InitRules ==
    /\ platform \in Platforms
    /\ evRules \in SeqsUpTo(Rule, MaxRules)
    /\ evHasRules \in BOOLEAN
    /\ evHasRules \/ evRules = <<>>
    /\ evVerdict = EvalUnset
    /\ disk = IdleDisk
    /\ retry = IdleRetry
    /\ IdleSam
    /\ IdleNoob
    /\ IdleRes
    /\ IdleMerge
    /\ IdleZip
    /\ IdleLate

RulesEvalSam == EvalSam /\ UNCHANGED ruleFrame

RulesEvalNoob == EvalNoob /\ UNCHANGED ruleFrame

RulesEvalSamArg == EvalSamArg /\ UNCHANGED ruleFrame

RulesEvalNoobArg == EvalNoobArg /\ UNCHANGED ruleFrame

NextRules == RulesEvalSam \/ RulesEvalNoob \/ RulesEvalSamArg \/ RulesEvalNoobArg

SpecRules == InitRules /\ [][NextRules]_vars

\* ---- _download_with_retry called on its own (download_modrinth_mod,
\*      install_java_if_needed)
InitRetry ==
    /\ platform = "Linux"
    /\ IdleRules
    /\ IdleSam
    /\ IdleNoob
    /\ IdleRes
    /\ IdleMerge
    /\ IdleZip
    /\ IdleLate
    /\ \E m \in 0 .. MaxRetriesArg, path \in {"mods/mod.jar", "java/openjdk.tar.gz"} :
         /\ retry = [IdleRetry EXCEPT ![0] = RetryCall(path, m)]
         /\ \E c \in Contents \cup {NoFile} : disk = [IdleDisk EXCEPT ![path] = c]

DirectConnect == RetryConnect(0) /\ UNCHANGED <<samFrame, samVars>>

DirectFinish == RetryFinish(0) /\ UNCHANGED <<samFrame, samVars>>

DirectExhausted == RetryExhausted(0) /\ UNCHANGED <<samFrame, samVars>>

NextRetry == DirectConnect \/ DirectFinish \/ DirectExhausted

SpecRetry == InitRetry /\ [][NextRetry]_vars

\* ---- samsoftbuild0a: launches of one version
\* the libraries of the manifests with several entries
PoolDescriptors ==
    {l \in LibDescriptors : l.downloads = "computed" /\ l.natives = {}}

\* a manifest and the number of launches: every single library launched
\* MaxRuns times, and up to MaxLibs libraries launched once
SamScenarios ==
    ([1..1 -> LibDescriptors] \X {MaxRuns})
    \cup ((UNION {[1..k -> PoolDescriptors] : k \in 2..MaxLibs}) \X {1})

\* the cache at the start: empty, every file as published, every file corrupted
SamCaches ==
    {[p \in Paths |->
        IF p \in {JarPath, "libraries/a.jar", "libraries/b.jar", "libraries/alt.jar"}
        THEN c ELSE NoFile] : c \in {NoFile, "good", "bad"}}

InitSam ==
    /\ platform = "Linux"
    /\ IdleRules
    /\ retry = IdleRetry
    /\ \E sc \in SamScenarios :
         /\ samManifest = sc[1]
         /\ samMain = [MainIdle EXCEPT !.launches = sc[2]]
    /\ samTask = [i \in Workers |-> TaskIdle]
    /\ samDone = <<>>
    /\ samNatives = {}
    /\ samClasspath = NoClasspath
    /\ disk \in SamCaches
    /\ IdleNoob
    /\ IdleRes
    /\ IdleMerge
    /\ IdleZip
    /\ IdleLate

SamWorker == \E i \in Workers :
    \/ LibCheck(i)
    \/ LibRetry(i)
    \/ LibAfterDownload(i)
    \/ NativesCheck(i)
    \/ NativesAfterDownload(i)
    \/ NativesExtract(i)

NextSam ==
    \/ SamLaunch
    \/ SamFetchJson
    \/ SamJarCheck
    \/ SamJarRetry
    \/ SamJarAfter
    \/ SamSubmit
    \/ SamWorker
    \/ SamWait
    \/ SamPoolExit
    \/ SamBuild
    \/ SamRelaunch

SpecSam == InitSam /\ [][NextSam]_vars

\* ---- noobv0: install_libraries on one manifest
NoobPoolDescriptors ==
    {l \in NoobLibDescriptors : l.downloads = "sha" /\ ~l.natives}

\* every single library installed MaxRuns times, up to MaxLibs libraries once
NoobScenarios ==
    ([1..1 -> NoobLibDescriptors] \X {MaxRuns})
    \cup ((UNION {[1..k -> NoobPoolDescriptors] : k \in 2..MaxLibs}) \X {1})

InitNoob ==
    /\ platform = "Linux"
    /\ IdleRules
    /\ retry = IdleRetry
    /\ IdleSam
    /\ IdleRes
    /\ IdleMerge
    /\ IdleZip
    /\ IdleLate
    /\ \E sc \in NoobScenarios :
         /\ noobManifest = sc[1]
         /\ noobLib = [NoobIdle EXCEPT !.launches = sc[2]]
    /\ noobNatives = {}
    /\ disk \in SamCaches

NextNoob ==
    \/ NoobCall
    \/ NoobLoop
    \/ NoobDownload
    \/ NoobAppend
    \/ NoobNativesStep
    \/ NoobBuildCommand

SpecNoob == InitNoob /\ [][NextNoob]_vars

\* ---- samsoftbuild0a: the version JSON of download_version_files; the fabric
\* entry inherits from an id of the vanilla manifest
InitSamResolve ==
    /\ platform = "Linux"
    /\ IdleRules
    /\ disk = IdleDisk
    /\ retry = IdleRetry
    /\ IdleSam
    /\ IdleNoob
    /\ IdleRes
    /\ IdleZip
    /\ IdleLate
    /\ samVersions \in [VersionIds -> SamVersionInfos]
    /\ \A v \in VersionIds :
          samVersions[v].loader = "fabric" =>
              samVersions[samVersions[v].inheritsFrom].loader = "vanilla"
    /\ samDocs = [v \in VersionIds |-> NoDoc]
    /\ samJson = NoJson

NextSamResolve == \E version_id \in VersionIds : SamPersist(version_id)

SpecSamResolve == InitSamResolve /\ [][NextSamResolve]_vars

\* ---- a launch of each launcher, with and without a Java at hand
InitLaunch ==
    /\ IdleEarly
    /\ IdleCmd
    /\ IdleCo
    /\ \E java \in BOOLEAN :
         lnSam = [SamLaunchIdle EXCEPT !.pc = "java", !.java = java]
    /\ \E entry \in {"install_java_if_needed", "get_java_path"}, installed \in BOOLEAN :
         lnNoob = [pc |-> "calling", entry |-> entry, installed |-> installed,
                   depth |-> 1]

NextLaunch ==
    \/ LnSamJava
    \/ LnSamVersion
    \/ LnSamAssets
    \/ LnSamBuild
    \/ LnSamSpawn
    \/ LnNoobDescend
    \/ LnNoobOverflow

SpecLaunch == InitLaunch /\ [][NextLaunch]_vars

\* ---- the command of each launcher for every argument part
InitCommand ==
    /\ IdleEarly
    /\ IdleLaunch
    /\ IdleCo
    /\ cmdDoc \in CmdDocs
    /\ cmdDoc.has_legacy \/ cmdDoc.words = <<>>
    /\ cmdDoc.has_arguments \/ (cmdDoc.jvm = <<>> /\ cmdDoc.game = <<>>)
    /\ cmdOut = [sam |-> CmdUnset, noob |-> CmdUnset]

NextCommand == BuildSam \/ BuildNoob

SpecCommand == InitCommand /\ [][NextCommand]_vars

\* ---- the extraction of every archive by both launchers
InitPaths ==
    /\ IdleEarly
    /\ IdleLaunch
    /\ IdleCmd
    /\ coLibs \in [1..MaxCoords -> LibNames]
    /\ coOut = [sam |-> CoUnset, noob |-> CoUnset]

NextPaths == PathsSam \/ PathsNoob

SpecPaths == InitPaths /\ [][NextPaths]_vars

InitExtract ==
    /\ platform = "Linux"
    /\ IdleRules
    /\ disk = IdleDisk
    /\ retry = IdleRetry
    /\ IdleSam
    /\ IdleNoob
    /\ IdleRes
    /\ IdleMerge
    /\ IdleLate
    /\ exArchive \in Archives
    /\ exOut = ZipUnset

NextExtract == ExtractSam \/ ExtractNoob

SpecExtract == InitExtract /\ [][NextExtract]_vars

\* ---- noobv0: download_version_files on every version table
InitResolve ==
    /\ platform = "Linux"
    /\ IdleRules
    /\ disk = IdleDisk
    /\ retry = IdleRetry
    /\ IdleSam
    /\ IdleNoob
    /\ IdleMerge
    /\ IdleZip
    /\ IdleLate
    /\ versions \in [VersionIds -> VersionInfos]
    /\ downloaded_versions = {}
    /\ resFiles = [v \in VersionIds |-> NoFiles]
    /\ resDocs = [v \in VersionIds |-> NoDoc]
    /\ resStack = [t \in ResThreads |-> <<>>]
    /\ resTop = [t \in ResThreads |->
                   [TopIdle EXCEPT !.limit = IF t = 1 THEN MaxCalls ELSE 0]]

ResCallAny == \E t \in ResThreads, v \in VersionIds : ResCall(t, v)

ResStep ==
    \E t \in ResThreads :
        \/ ResEntry(t)
        \/ ResFetch(t)
        \/ ResAfterParent(t)
        \/ ResMerge(t)
        \/ ResVanillaJar(t)
        \/ ResJar(t)

NextResolve == ResCallAny \/ ResStep

SpecResolve == InitResolve /\ [][NextResolve]_vars

\* ---- noobv0: two launch threads, each calling download_version_files once,
\* for different ids, on tables of vanilla and fabric entries with a 'url'
ConcurrentVersionInfos ==
    {info \in VersionInfos : info.url /\ info.loader # "forge"
                                /\ info.mc_version # UnknownId}

InitConcurrent ==
    /\ platform = "Linux"
    /\ IdleRules
    /\ disk = IdleDisk
    /\ retry = IdleRetry
    /\ IdleSam
    /\ IdleNoob
    /\ IdleMerge
    /\ IdleZip
    /\ IdleLate
    /\ versions \in [VersionIds -> ConcurrentVersionInfos]
    /\ downloaded_versions = {}
    /\ resFiles = [v \in VersionIds |-> NoFiles]
    /\ resDocs = [v \in VersionIds |-> NoDoc]
    /\ resStack = [t \in ResThreads |-> <<>>]
    /\ resTop = [t \in ResThreads |-> [TopIdle EXCEPT !.limit = 1]]

ResCallDistinct ==
    \E t \in ResThreads, v \in VersionIds :
        /\ \A u \in ResThreads \ {t} : resTop[u].version # v
        /\ ResCall(t, v)

NextConcurrent == ResCallDistinct \/ ResStep

SpecConcurrent == InitConcurrent /\ [][NextConcurrent]_vars

-----------------------------------------------------------------------------
(* Properties *)

Range(s) == {s[k] : k \in 1..Len(s)}

\* ---- C1: a library fetch that reports success for a descriptor with an
\* expected SHA-1 leaves a file at the destination that exists, is not empty
\* and hashes to the expected value, whatever the cache held before.
\* install_libraries reports success by appending the library to lib_paths.
\* SpecNoob violates it: a wrong file already at lib_path is appended unread.
C1_NoobSuccessMeansVerified ==
    \A i \in Range(noobLib.lib_paths) :
        LET lib == noobManifest[i] IN
        lib.downloads = "sha" =>
            /\ exists(disk, noob_lib_path(lib))
            /\ disk[noob_lib_path(lib)] # "empty"
            /\ Sha1(disk[noob_lib_path(lib)]) = Sha1("good")

\* ---- C2: on a non-empty rule list without feature conditions, in which some
\* rule has no OS condition or names the current OS, the verdict of either
\* evaluator is the action of the first such rule.
\* SpecRules violates it: apply_rules excludes on any matching disallow rule,
\* also one that comes after a matching allow rule.
OsMatches(rule, os_name) == rule.os = NoOs \/ rule.os = os_name

FirstOsMatch(rs, os_name) ==
    CHOOSE i \in 1..Len(rs) :
        /\ OsMatches(rs[i], os_name)
        /\ \A j \in 1..(i - 1) : ~OsMatches(rs[j], os_name)

FirstMatchVerdict(rs, os_name) ==
    Verdict(rs[FirstOsMatch(rs, os_name)].action = "allow")

Decided(rs, os_name) ==
    /\ \A i \in 1..Len(rs) : ~rs[i].features
    /\ \E i \in 1..Len(rs) : OsMatches(rs[i], os_name)

C2_FirstMatchDecides ==
    /\ (evVerdict.sam # "unset" /\ Decided(evRules, CurrentOsSam(platform)))
         => evVerdict.sam = FirstMatchVerdict(evRules, CurrentOsSam(platform))
    /\ (evVerdict.noob # "unset" /\ Decided(evRules, CurrentOsNoob(platform)))
         => evVerdict.noob = FirstMatchVerdict(evRules, CurrentOsNoob(platform))

\* ---- C3: resolving a version whose mc_version chain leads back to itself
\* ends in a failure that reports the cycle, never in success and never in an
\* unrelated error such as a missing file.
\* SpecResolve violates it: the guard on downloaded_versions answers True to
\* the inner call, and the outer call then fails on open(vanilla_path).
Parent(v) ==
    IF v \in VersionIds /\ versions[v].loader = "fabric"
    THEN versions[v].mc_version ELSE UnknownId

RECURSIVE Ancestors(_, _)
Ancestors(v, n) ==
    IF n = 0 \/ Parent(v) = UnknownId THEN {}
    ELSE {Parent(v)} \cup Ancestors(Parent(v), n - 1)

OnCycle(v) == v \in Ancestors(v, Cardinality(VersionIds))

C3_CycleIsReported ==
    \A t \in ResThreads :
        (resStack[t] = <<>> /\ resTop[t].ret # "none" /\ OnCycle(resTop[t].version))
            => /\ resTop[t].ret = "False"
               /\ "FileNotFoundError" \notin resTop[t].errs

\* ---- C4: when a library its rules allow on this host cannot be fetched, no
\* launch command is produced; a command is never built from a classpath that
\* lacks an allowed library.
\* SpecNoob violates it: install_libraries passes over the failed library with
\* continue and _prepare_and_launch builds the command from what is left.
C4_NoCommandWithoutAllowedLibrary ==
    noobLib.pc = "command" =>
        \A i \in 1..Len(noobManifest) :
            apply_rules(noobManifest[i].rules, platform)
                => i \in Range(noobLib.lib_paths)

\* ---- C5: the classpath of the built command lists the included libraries
\* in manifest declaration order, whatever order the parallel fetches
\* completed in.
C5_ClasspathInManifestOrder ==
    samMain.pc = "built" =>
        /\ \A j, k \in 1..Len(samClasspath) :
               j < k => samClasspath[j] < samClasspath[k]
        /\ Range(samClasspath) =
               {i \in 1..Len(samManifest) :
                    /\ is_library_allowed(samManifest[i], CurrentOsSam(platform))
                    /\ exists(disk, ComputedPath(samManifest[i].name))}

\* a command built from two libraries whose fetches completed in reverse order
C5_Witness ==
    /\ samMain.pc = "built"
    /\ Len(samClasspath) >= 2
    /\ Len(samDone) >= 2
    /\ samDone[1] > samDone[2]

\* ---- C6: no two threads write the same destination path at the same time.
\* SpecSam violates it: two entries with the same lib_path are two pool tasks,
\* and both can be inside urlretrieve on that path.
C6_NoConcurrentWritesToOnePath ==
    \A t1, t2 \in Threads :
        (t1 # t2 /\ retry[t1].status = "writing" /\ retry[t2].status = "writing")
            => retry[t1].path # retry[t2].path

\* ---- C7: a file found at a library's destination whose bytes do not match
\* the descriptor's expected hash is never accepted as cached.
\* SpecNoob violates it: install_libraries takes any existing file without
\* hashing it.
C7_CorruptCacheNotAccepted ==
    \A i \in Range(noobLib.lib_paths) \ noobLib.fetched :
        noobManifest[i].downloads = "sha"
            => verify_file(disk, noob_lib_path(noobManifest[i]), Sha1("good"))

\* ---- C8: a second fetch of a descriptor whose first fetch succeeded makes
\* no network request.
\* SpecSam violates it: the native archive is removed after extraction, so the
\* next launch downloads it again.
C8_SecondFetchMakesNoRequest ==
    \A i \in Workers :
        samTask[i].prev = "True"
            => samTask[i].reqs = 0 /\ retry[i].requests = 0

\* ---- C9: _download_with_retry makes at most max_retries attempts, sleeps
\* 2^k seconds after the k-th failed attempt and only between attempts, stops
\* at the first download that is not empty, and when every attempt failed
\* raises what the last attempt raised.
C9_RetryPolicy ==
    LET r == retry[0] IN
    /\ r.requests <= r.max_retries
    /\ r.sleeps = [k \in 1..Len(r.sleeps) |-> Pow2(k - 1)]
    /\ Len(r.sleeps) < r.max_retries \/ r.sleeps = <<>>
    /\ r.status = "true" =>
           /\ r.requests = Len(r.sleeps) + 1
           /\ disk[r.path] \notin {NoFile, "empty"}
    /\ r.status = "raised" =>
           /\ r.requests = r.max_retries
           /\ r.exc # NoExc
           /\ r.exc = r.last
    /\ r.status = "false" => r.max_retries = 0

\* every attempt of a three-attempt call failed: two sleeps, then the raise
C9_Witness ==
    /\ retry[0].status = "raised"
    /\ retry[0].max_retries = DefaultMaxRetries
    /\ retry[0].sleeps = <<1, 2>>
    /\ retry[0].requests = 3

\* ---- C10: once _download_with_retry has given up because its last attempt
\* left a zero-byte file, that file is no longer at the destination.
\* SpecRetry violates it: nothing in the function removes a file.
C10_NoEmptyFileAfterFailure ==
    (retry[0].status = "raised" /\ retry[0].last = "ValueError: Empty download")
        => disk[retry[0].path] # "empty"

\* ---- C16: on a non-empty rule list in which no rule names the current OS
\* or goes without an OS condition, the item is excluded, in both evaluators.
\* SpecRules violates it: apply_rules answers True when no rule excluded.
NoRuleMatches(rs, os_name) ==
    /\ rs # <<>>
    /\ \A i \in 1..Len(rs) : ~OsMatches(rs[i], os_name)

C16_NoMatchMeansExcluded ==
    /\ (evVerdict.sam # "unset" /\ NoRuleMatches(evRules, CurrentOsSam(platform)))
         => evVerdict.sam = "excluded"
    /\ (evVerdict.noob # "unset" /\ NoRuleMatches(evRules, CurrentOsNoob(platform)))
         => evVerdict.noob = "excluded"

\* ---- C17: with the single rule {os: windows, action: disallow} a library is
\* included on linux and excluded on windows, in both evaluators.
\* SpecRules violates it: should_include finds no matching rule on linux and
\* falls through to return False.
WindowsDisallow == <<[os |-> "windows", features |-> FALSE, action |-> "disallow"]>>

ExpectedC17(p) == IF p = "Linux" THEN "included" ELSE "excluded"

C17_WindowsDisallowExample ==
    (evRules = WindowsDisallow /\ platform \in {"Linux", "Windows"})
        => /\ evVerdict.sam \in {"unset", ExpectedC17(platform)}
           /\ evVerdict.noob \in {"unset", ExpectedC17(platform)}

\* ---- C18: a rule with a feature condition never decides the verdict: each
\* evaluator answers as it does on the list in which every such rule is
\* replaced by a rule for another OS, which cannot match.
\* SpecRules violates it: apply_rules does not look at 'features', so a
\* feature-conditioned disallow rule excludes.
OtherOs(os_name) == CHOOSE o \in OSNames : o # os_name

Neutralised(rs, os_name) ==
    [i \in 1..Len(rs) |->
        IF rs[i].features
        THEN [os |-> OtherOs(os_name), features |-> FALSE, action |-> rs[i].action]
        ELSE rs[i]]

C18_FeatureRulesNeverDecide ==
    /\ evVerdict.sam # "unset" =>
         evVerdict.sam = Verdict(should_include(
             Neutralised(evRules, CurrentOsSam(platform)), CurrentOsSam(platform)))
    /\ evVerdict.noob # "unset" =>
         evVerdict.noob = Verdict(apply_rules(
             Neutralised(evRules, CurrentOsNoob(platform)), platform))

\* ---- C19: within each launcher an argument entry that has a value is
\* included exactly when a library with the same rule list is, also when the
\* rule list is empty or absent.
\* SpecRules violates it: build_launch_command passes over an argument entry
\* without a "rules" key, while a library without one is allowed.
C19_ArgumentsDecidedAsLibraries ==
    /\ (evVerdict.sam # "unset" /\ evVerdict.sam_arg # "unset")
         => evVerdict.sam_arg = evVerdict.sam
    /\ (evVerdict.noob # "unset" /\ evVerdict.noob_arg # "unset")
         => evVerdict.noob_arg = evVerdict.noob

\* ---- C13: a download_version_files call for a version whose JSON and JAR
\* are already on disk returns the cached result without a network request,
\* so no network failure can make it return False.
\* SpecSam violates it: the vanilla branch fetches the version JSON on every
\* call, and a failed fetch ends the call with False.
SamMaterialized ==
    /\ exists(disk, JsonPath)
    /\ exists(disk, JarPath)
    /\ verify_file(disk, JarPath, JarSha)

C13_CachedResolveNeedsNoNetwork ==
    [][(samMain.pc = "json" /\ SamMaterialized)
          => ~(samMain'.pc = "returned" /\ samMain'.outcome = "False")]_vars

\* ---- C15: self.downloaded_versions is empty whenever no
\* download_version_files call is in progress.
\* SpecResolve violates it: the cache-hit return comes after the add and
\* before the try, so its finally clause never removes the id.
C15_ScratchSetEmptyWhenIdle ==
    (\A t \in ResThreads : resStack[t] = <<>>) => downloaded_versions = {}

\* ---- C11
\* the libraries a version contributes itself: those of its own document
SamOwnLibraries(v) ==
    IF samVersions[v].loader = "fabric"
    THEN Len(FabricProfile(v).libraries)
    ELSE Len(VanillaResponse(v).libraries)

RECURSIVE SamChainLibraries(_, _)
\* the sum of the counts the version and each of its ancestors contribute
SamChainLibraries(v, fuel) ==
    SamOwnLibraries(v)
        + (IF samVersions[v].loader = "fabric" /\ fuel > 0
           THEN SamChainLibraries(samVersions[v].inheritsFrom, fuel - 1)
           ELSE 0)

\* C11: for a version chain without a cycle, the library list of the document
\* the resolver persists for a version has as many entries as the version and
\* its ancestors contribute together: no library of the base version is lost
\* and none is added twice.
C11_MergedLibraryCount ==
    \A v \in VersionIds :
        samDocs[v] # NoDoc =>
            Len(samDocs[v].libraries) = SamChainLibraries(v, Cardinality(VersionIds))

\* ---- C12
\* the loader's libraries for the client, and its launcherMeta arguments
ChildLibraries(v) ==
    LoaderItem(v).launcherMeta.libraries.common
        \o LoaderItem(v).launcherMeta.libraries.client

ChildArguments(v) ==
    IF LoaderItem(v).launcherMeta.has_arguments
    THEN LoaderItem(v).launcherMeta.arguments.common
            \o LoaderItem(v).launcherMeta.arguments.client
    ELSE <<>>

\* a document merged from a base version's document is on disk for v
Merged(v) == versions[v].loader = "fabric" /\ resDocs[v] # NoDoc

\* the fields of the merged document that both statements of C12 share
MergedCommonFields(v) ==
    LET parent == resDocs[versions[v].mc_version] IN
    /\ resDocs[v].libraries = parent.libraries \o ChildLibraries(v)
    /\ resDocs[v].mainClass = LoaderItem(v).launcherMeta.mainClass.client
    /\ resDocs[v].jvm = parent.jvm \o ChildArguments(v)
    /\ resDocs[v].id = v

\* C12 as claimed: the merged document of a loader version has the parent's
\* libraries followed by the child's, the child's main class, the parent's
\* JVM arguments followed by the child's, the parent's game arguments
\* followed by the child's and nothing more, and the child's id.
C12_MergeFieldPrecedence ==
    \A v \in VersionIds :
        Merged(v) =>
            /\ MergedCommonFields(v)
            /\ resDocs[v].game =
                  resDocs[versions[v].mc_version].game \o ChildArguments(v)

\* C12 amended: as above, except that the game arguments end with
\* "--versionType" and "fabric-loader:<loader version>" after the child's.
C12_MergeFieldPrecedenceAmended ==
    \A v \in VersionIds :
        Merged(v) =>
            /\ MergedCommonFields(v)
            /\ resDocs[v].game =
                  resDocs[versions[v].mc_version].game \o ChildArguments(v)
                      \o <<Tok(v, "--versionType"), LoaderItem(v).loader_version>>

\* a loader version with launcherMeta arguments was merged onto a base
\* version that was itself merged
C12_Witness ==
    \E v \in VersionIds :
        /\ Merged(v)
        /\ ChildArguments(v) # <<>>
        /\ Merged(versions[v].mc_version)

\* ---- C14
\* a top-level call of thread t has returned
Returned(t) == resStack[t] = <<>> /\ resTop[t].ret # "none"

\* neither v nor any version its chain leads to inherits from itself
ChainAcyclic(v) ==
    \A a \in {v} \cup Ancestors(v, Cardinality(VersionIds)) : ~OnCycle(a)

\* C14: download_version_files calls that run concurrently for different ids
\* end as they would alone: on a chain without a cycle no call returns True
\* before the version's JSON is written, and none fails because the base
\* version's JSON, reported as resolved, is not on disk.
C14_ConcurrentResolvesIndependent ==
    \A t \in ResThreads :
        (Returned(t) /\ ChainAcyclic(resTop[t].version)) =>
            /\ "FileNotFoundError" \notin resTop[t].errs
            /\ resTop[t].ret = "True" => resFiles[resTop[t].version].json # NoFile

\* ---- C20
\* the entry's normalized path leaves the natives directory
Escapes(name) == ~InsideNatives(ResolveFrom(<<>>, join(NativesDir, name)))

\* C20: an extraction writes no file outside the natives directory, skips
\* every entry whose normalized path escapes it, and extracts no entry under
\* META-INF.
C20_ExtractionStaysInside ==
    \A launcher \in {"sam", "noob"} :
        exOut[launcher].done =>
            \A w \in exOut[launcher].wrote :
                /\ InsideNatives(w.file)
                /\ ~Escapes(w.entry)
                /\ Head(w.entry) # "META-INF"

\* ---- C25: whenever noobv0's download_version_files has returned True for a
\* version, the version's JSON and JAR are on disk and the JAR has the SHA-1
\* the manifest declares, whatever calls came before.
\* SpecResolve violates it: a call that wrote the JSON and failed on the JAR
\* leaves the JSON behind, and the next call returns True at the cache check.
C25_TrueMeansJsonAndVerifiedJar ==
    \A t \in ResThreads :
        (Returned(t) /\ resTop[t].ret = "True") =>
            /\ resFiles[resTop[t].version].json # NoFile
            /\ resFiles[resTop[t].version].jar = "good"

\* ---- C29: a _download_with_retry call with max_retries >= 1 never returns
\* False: it is running, has returned True, or has raised; so no caller that
\* waits for its result ever sees False from it.
C29_RetryNeverReturnsFalse ==
    \A t \in DOMAIN retry :
        retry[t].max_retries >= 1 =>
            /\ retry[t].status # "false"
            /\ retry[t].attempt < retry[t].max_retries

\* a call allowed two attempts failed both and raised
C29_Witness ==
    /\ retry[0].max_retries = 2
    /\ retry[0].status = "raised"
    /\ retry[0].requests = 2

\* ---- C30: once samsoftbuild0a's download_version_files has left its library
\* pool, by returning True or False or by an exception of a worker, every
\* worker it submitted has finished, so none writes a file afterwards; this
\* holds also when the call stops at the first failed library.
C30_NoWorkerOutlivesTheCall ==
    samMain.pc \in {"returned", "built", "no command"} =>
        \A i \in Workers : samTask[i].pc \in {"none", "done"}

\* the call stopped at a failed library and ended only after a worker that
\* completed later than the failed one
C30_Witness ==
    /\ samMain.pc = "returned"
    /\ samMain.outcome # "True"
    /\ LET futures == Submitted(samManifest, CurrentOsSam(platform)) IN
       /\ samMain.wait <= Len(futures)
       /\ \E a, b \in DOMAIN samDone :
            /\ a < b
            /\ samDone[a] = futures[samMain.wait]

\* ---- C23: when the provisioning of the Java runtime failed, the launch
\* starts no download of a version, a library or an asset.
\* SpecLaunch violates it: samsoftbuild0a's install_java_if_needed swallows
\* its failure and _prepare_and_launch goes on to download_version_files.
C23_NoFetchAfterFailedProvisioning ==
    lnSam.provision = "failed" => lnSam.fetched = {}

\* ---- C24: when the asset index or an asset object could not be fetched or
\* verified, the game process is not started.
\* SpecLaunch violates it: download_assets catches every exception and
\* returns None, and its caller never looks at the asset store.
C24_NoSpawnWithFailedAssets ==
    lnSam.spawned => lnSam.assets \in {"no index", "complete"}

\* ---- C26: in noobv0 a call of install_java_if_needed or get_java_path
\* returns after a bounded number of nested calls: it nests no deeper than
\* one call of each function and never ends in RecursionError.
\* SpecLaunch violates it: each function calls the other before any test.
C26_JavaCallsReturn ==
    /\ lnNoob.pc # "RecursionError"
    /\ lnNoob.depth <= 2

\* ---- C21
\* the place of an element in the claimed order; 0 for the interpreter and
\* its fixed flags, which the order does not speak of
OrderRank(role) ==
    CASE role \in {"-Xmx", "-Xms"} -> 1
      [] role = "natives" -> 2
      [] role \in {"loader flag", "jvm"} -> 3
      [] role \in {"cp", "classpath"} -> 4
      [] role = "main" -> 5
      [] role = "game" -> 6
      [] OTHER -> 0

InClaimedOrder(argv) ==
    /\ \E i \in DOMAIN argv : argv[i].role = "-Xmx"
    /\ \E i \in DOMAIN argv : argv[i].role = "-Xms"
    /\ \A i, j \in DOMAIN argv :
         (i < j /\ OrderRank(argv[i].role) > 0 /\ OrderRank(argv[j].role) > 0)
            => OrderRank(argv[i].role) <= OrderRank(argv[j].role)

\* C21: a command a launcher built has the memory bounds, minimum and
\* maximum, then the native-library-path flag, then the loader flags and the
\* JVM arguments, then the classpath flag and the classpath, then the main
\* class, then the game arguments.
\* SpecCommand violates it: samsoftbuild0a sets no minimum and appends the
\* JVM arguments after "-cp" and the classpath.
C21_ArgvOrder ==
    \A launcher \in {"sam", "noob"} :
        cmdOut[launcher].status = "command" => InClaimedOrder(cmdOut[launcher].argv)

\* ---- C22
\* the template is an element of the command, as it stands in the manifest
PassedThrough(template, role) ==
    \E i \in DOMAIN cmdOut.noob.argv : cmdOut.noob.argv[i] = El(role, template)

\* the string items of a structured list whose template names a token that
\* the placeholders lack
UnknownStrings(items) ==
    {items[i].value : i \in {j \in DOMAIN items :
                                ~items[j].is_dict /\ RaisesKeyError(items[j].value)}}

\* C22: a template with a token that the placeholders lack never aborts the
\* building of the command and is emitted unchanged, in the flat
\* minecraftArguments string and in the structured lists alike.
\* SpecCommand violates it: noobv0 formats minecraftArguments outside any
\* try, so the KeyError ends the launch.
C22_UnknownTokenPassesThrough ==
    (cmdOut.noob.status # "unset" /\ (cmdDoc.has_legacy \/ cmdDoc.has_arguments)) =>
        /\ cmdOut.noob.status = "command"
        /\ cmdDoc.has_legacy =>
             \A i \in DOMAIN cmdDoc.words :
                 RaisesKeyError(cmdDoc.words[i]) => PassedThrough(cmdDoc.words[i], "game")
        /\ (~cmdDoc.has_legacy /\ cmdDoc.has_arguments) =>
             \A t \in UnknownStrings(cmdDoc.game) : PassedThrough(t, "game")
        /\ cmdDoc.has_arguments =>
             \A t \in UnknownStrings(cmdDoc.jvm) : PassedThrough(t, "jvm")

\* ---- C27: every rule-allowed library that _download_library stored is put
\* on the classpath by build_launch_command: the path the artifact is stored
\* at (the explicit artifact path when the manifest gives one) is the path
\* the classpath lookup uses.
\* SpecSam violates it: _download_library stores at downloads.artifact.path,
\* build_launch_command looks only at the path computed from the coordinate.
C27_StoredLibraryIsOnClasspath ==
    samMain.pc = "built" =>
        \A i \in 1..Len(samManifest) :
            ( /\ is_library_allowed(samManifest[i], CurrentOsSam(platform))
              /\ samTask[i].result = "True"
              /\ exists(disk, lib_path(samManifest[i])) )
                => /\ lib_path(samManifest[i]) = ComputedPath(samManifest[i].name)
                   /\ i \in Range(samClasspath)

\* the coordinate of a library name: its parts group, artifact, version and,
\* when present, classifier
Coordinate(name) == split(name, ":")

DistinctPaths(names, paths) ==
    \A i, j \in 1..Len(names) :
        ( /\ Coordinate(names[i]) # Coordinate(names[j])
          /\ paths[i] # NoPath
          /\ paths[j] # NoPath )
            => paths[i] # paths[j]

\* ---- C28: two library entries whose coordinates differ (in group, artifact,
\* version or classifier) never resolve to the same on-disk path, in
\* install_libraries of noobv0 and in build_launch_command of samsoftbuild0a.
\* SpecPaths violates it: both build the path from the first three parts of
\* the name, so g:a:1 and g:a:1:n share one path.
C28_DistinctCoordinatesDistinctPaths ==
    /\ coOut.sam.done => DistinctPaths(coLibs, coOut.sam.paths)
    /\ coOut.noob.done => DistinctPaths(coLibs, coOut.noob.paths)

=========================================================================
